---- MODULE Spec2Model ----
(***************************************************************************)
(* A model of the indexable skip list of glenn-brown/skiplist              *)
(* (src/skiplist.go, the Skiplist type with score fast path).              *)
(*                                                                         *)
(* Pointers to elements are the numbers 1..nalloc in allocation order, the *)
(* nil pointer is Nil.  A pointer to a link (the *link of the prev type)   *)
(* is the pair of the link's owner (Nil for the spine l.links, an element  *)
(* otherwise) and its level.  Go levels count from 0, sequence indices     *)
(* here from 1: level L of the source is index L+1.                        *)
(* Keys are byte slices ([]byte).  A uint64 is kept as its eight base-256   *)
(* digits, most significant first; a float64 score as its sign and the     *)
(* nine base-256 digits of its magnitude (the first is the digit of 2^64,  *)
(* which the conversion of a uint64 can round up to).                      *)
(***************************************************************************)
EXTENDS Integers, Sequences, FiniteSets, TLC

\* Bounds of the model.
MaxAlloc == 3
MaxDraw == 3

Nil == 0

Keys == {<<0>>, <<1>>, <<1, 0>>}

VARIABLES cnt, links, prev, elems, nalloc, desc, ret, twin, calls

vars == <<cnt, links, prev, elems, nalloc, desc, ret, twin, calls>>

----------------------------------------------------------------------------
\* Key ordering: lessFn / greaterFn and scoreFn / negativeScoreFn for []byte.

Min(a, b) == IF a < b THEN a ELSE b

\* bytes.Compare(a, b) < 0
BytesLess(a, b) ==
    \/ /\ Len(a) < Len(b)
       /\ \A j \in 1..Len(a) : a[j] = b[j]
    \/ \E i \in 1..Min(Len(a), Len(b)) :
          /\ a[i] < b[i]
          /\ \A j \in 1..(i - 1) : a[j] = b[j]

\* A key of a caller's type that implements SlowKey over a byte slice is the
\* slice behind a type tag that is no byte.
SlowKey(bytes) == <<256>> \o bytes

\* case SlowKey of the type switches
IsSlowKey(key) == Len(key) > 0 /\ key[1] > 255

\* a.(SlowKey).Less(b) of that type: the byte order of the slices
SlowKeyLess(a, b) == BytesLess(Tail(a), Tail(b))

lessFn(a, b) == IF IsSlowKey(a) THEN SlowKeyLess(a, b) ELSE BytesLess(a, b)

greaterFn(a, b) == IF IsSlowKey(a) THEN SlowKeyLess(b, a) ELSE BytesLess(b, a)

ZeroDigits == [i \in 1..8 |-> 0]

\* scoreBytes placing the first byte lowest
scoreBytesLowFirst(data) ==
    [i \in 1..8 |-> IF 9 - i <= Len(data) THEN data[9 - i] ELSE 0]

\* result |= uint64(data[i]) << ((7 - i) * 8) for the first 8 bytes
scoreBytes(data) == [i \in 1..8 |-> IF i <= Len(data) THEN data[i] ELSE 0]

\* bit i of a uint64, bit 1 the most significant
Bit(d, i) == (d[((i - 1) \div 8) + 1] \div (2 ^ (7 - ((i - 1) % 8)))) % 2

\* the most significant bit set
TopBit(d) == CHOOSE i \in 1..64 : Bit(d, i) = 1 /\ \A j \in 1..(i - 1) : Bit(d, j) = 0

\* the one value of a set of one
Only(set) == CHOOSE x \in set : TRUE

\* the nine digits of a value given by its bits 0..64, bit 0 that of 2^64
DigitsOfBits(r) ==
    [j \in 1..9 |->
        IF j = 1 THEN r[0]
        ELSE r[8 * j - 15] * 128 + r[8 * j - 14] * 64 + r[8 * j - 13] * 32
             + r[8 * j - 12] * 16 + r[8 * j - 11] * 8 + r[8 * j - 10] * 4
             + r[8 * j - 9] * 2 + r[8 * j - 8]]

\* a uint64 of more than 53 significant bits rounded to the nearest float64,
\* ties to the even one: bits p..q are kept, q = p + 52
RoundAt(d, p) ==
    LET q  == p + 52
        up == /\ Bit(d, q + 1) = 1
              /\ \/ Bit(d, q) = 1
                 \/ \E i \in (q + 2)..64 : Bit(d, i) = 1
        Z  == {i \in p..q : Bit(d, i) = 0}
    IN  IF ~up
        THEN DigitsOfBits([i \in 0..64 |-> IF i >= 1 /\ i <= q THEN Bit(d, i) ELSE 0])
        ELSE IF Z = {}
        THEN DigitsOfBits([i \in 0..64 |-> IF i = p - 1 THEN 1 ELSE 0])
        ELSE Only({DigitsOfBits([i \in 0..64 |->
                        IF i >= 1 /\ i < z THEN Bit(d, i)
                        ELSE IF i = z THEN 1 ELSE 0])
                   : z \in {CHOOSE i \in Z : \A j \in Z : j <= i}})

\* float64(result) for a uint64: exact below 2^53 and when the low 11 bits
\* are zero, rounded otherwise
Float64(d) ==
    IF (d[1] = 0 /\ d[2] < 32) \/ (d[8] = 0 /\ d[7] % 8 = 0)
    THEN <<0>> \o d
    ELSE Only({RoundAt(d, p) : p \in {TopBit(d)}})

\* case SlowKey: 0.0; case []byte: scoreBytes
scoreFn(key) ==
    IF IsSlowKey(key) THEN [neg |-> FALSE, d |-> Float64(ZeroDigits)]
    ELSE [neg |-> FALSE, d |-> Float64(scoreBytes(key))]

\* result |= uint64(v); result = result << 8, for each of the first 8 bytes
\* (the shift drops the top digit of the uint64)
RECURSIVE negAcc(_, _, _)
negAcc(t, i, d) ==
    IF i > Min(Len(t), 8) THEN d
    ELSE negAcc(t, i + 1, [j \in 1..8 |-> IF j = 8 THEN 0
                                           ELSE IF j = 7 THEN t[i]
                                           ELSE d[j + 1]])

\* case SlowKey: -0.0; case []byte: the negated accumulation
negativeScoreFn(key) ==
    IF IsSlowKey(key) THEN [neg |-> TRUE, d |-> Float64(ZeroDigits)]
    ELSE [neg |-> TRUE, d |-> Float64(negAcc(key, 1, ZeroDigits))]

\* magnitude comparison of two digit strings of one length
DigitsLess(a, b) ==
    \E i \in DOMAIN a : a[i] < b[i] /\ \A j \in 1..(i - 1) : a[j] = b[j]

IsZero(d) == \A i \in DOMAIN d : d[i] = 0

\* float64 ==  (0.0 and -0.0 are equal)
FloatEq(a, b) ==
    \E x \in {a}, y \in {b} :
        /\ x.d = y.d
        /\ (x.neg = y.neg \/ IsZero(x.d))

\* float64 <
FloatLess(a, b) ==
    \E x \in {a}, y \in {b} :
        IF x.neg /\ y.neg THEN DigitsLess(y.d, x.d)
        ELSE IF x.neg THEN ~IsZero(x.d) \/ ~IsZero(y.d)
        ELSE IF y.neg THEN FALSE
        ELSE DigitsLess(x.d, y.d)

\* The other cases of the type switches.  A string is the sequence of its
\* bytes, a uint64 key its eight digits, an int64 key its sign and the eight
\* digits of its magnitude.
SignedLess(a, b) ==
    IF a.neg /\ b.neg THEN DigitsLess(b.d, a.d)
    ELSE IF a.neg THEN TRUE
    ELSE IF b.neg THEN FALSE
    ELSE DigitsLess(a.d, b.d)

lessFnType(typ, a, b) ==
    CASE typ = "[]byte" -> lessFn(a, b)
      [] typ = "string" -> BytesLess(a, b)
      [] typ = "uint64" -> DigitsLess(a, b)
      [] typ = "int64"  -> SignedLess(a, b)

scoreFnType(typ, t) ==
    CASE typ = "[]byte" -> scoreFn(t)
      [] typ = "string" -> [neg |-> FALSE, d |-> Float64(scoreBytes(t))]
      [] typ = "uint64" -> [neg |-> FALSE, d |-> Float64(t)]
      [] typ = "int64"  -> [neg |-> t.neg, d |-> Float64(t.d)]

\* runes = uint64(t[0])<<16 + uint64(t[1])
runes(t) ==
    [i \in 1..8 |-> IF i = 6 /\ Len(t) >= 1 THEN t[1]
                    ELSE IF i = 8 /\ Len(t) >= 2 THEN t[2]
                    ELSE 0]

negativeScoreFnType(typ, t) ==
    CASE typ = "[]byte" -> negativeScoreFn(t)
      [] typ = "string" -> [neg |-> TRUE, d |-> Float64(runes(t))]
      [] typ = "uint64" -> [neg |-> TRUE, d |-> Float64(t)]
      [] typ = "int64"  -> [neg |-> ~t.neg, d |-> Float64(t.d)]

\* F at the value of v, which is computed once
Bind(v, F(_)) == Only({F(x) : x \in {v}})

\* l.less and l.score as bound by New (ordinal.Fns) or NewDescending
\* (ordinal.FnsReversed) at the first key.
less(a, b) == IF desc THEN greaterFn(a, b) ELSE lessFn(a, b)

score(a) == IF desc THEN negativeScoreFn(a) ELSE scoreFn(a)

----------------------------------------------------------------------------
\* The heap: h.links is the spine l.links, h.elems the elements allocated so far.

\* *p for a link pointer p = (owner o, level index lv)
LinkAt(h, o, lv) == IF o = Nil THEN h.links[lv] ELSE h.elems[o].links[lv]

\* *p = lk.  A spine slot past len(l.links) is a slot of the backing array
\* that the next append overwrites: the write is never read.
SetLink(h, o, lv, lk) ==
    IF o = Nil
    THEN IF lv <= Len(h.links)
         THEN [h EXCEPT !.links[lv] = lk]
         ELSE h
    ELSE [h EXCEPT !.elems[o].links[lv] = lk]

\* n & (n - 1) == 0
RECURSIVE AndPredZero(_)
AndPredZero(n) ==
    IF n <= 1 THEN TRUE
    ELSE IF n % 2 = 1 THEN FALSE
    ELSE AndPredZero(n \div 2)

\* the zero value prev{} (a nil link pointer is owner -1)
zeroPrev == [o |-> Nil - 1, pos |-> 0]

\* Skiplist.grow on the list state s = [cnt, links, prev, elems]
grow(s) ==
    LET c == s.cnt + 1 IN
    IF AndPredZero(c)
    THEN [s EXCEPT !.cnt = c,
                   !.links = Append(s.links, [to |-> Nil, width |-> c]),
                   !.prev = Append(s.prev, zeroPrev)]
    ELSE [s EXCEPT !.cnt = c]

\* shrink with the power-of-two test made after count--
shrinkAfterDecrement(s) ==
    IF AndPredZero(s.cnt - 1)
    THEN [s EXCEPT !.cnt = s.cnt - 1,
                   !.links = SubSeq(s.links, 1, Len(s.links) - 1),
                   !.prev = SubSeq(s.prev, 1, Len(s.prev) - 1)]
    ELSE [s EXCEPT !.cnt = s.cnt - 1]

\* Skiplist.shrink
shrink(s) ==
    IF AndPredZero(s.cnt)
    THEN [s EXCEPT !.cnt = s.cnt - 1,
                   !.links = SubSeq(s.links, 1, Len(s.links) - 1),
                   !.prev = SubSeq(s.prev, 1, Len(s.prev) - 1)]
    ELSE [s EXCEPT !.cnt = s.cnt - 1]

\* the inner loop of prevs comparing scores only, without the fall back to
\* l.less on equal scores
RECURSIVE prevsWalkScoreOnly(_, _, _, _, _, _)
prevsWalkScoreOnly(s, o, lv, pos, key, sc) ==
    LET lk == LinkAt(s, o, lv) IN
    IF lk.to # Nil /\ FloatLess(s.elems[lk.to].score, sc)
    THEN prevsWalkScoreOnly(s, lk.to, lv, pos + lk.width, key, sc)
    ELSE [o |-> o, pos |-> pos]

\* the inner loop of prevs walking past the elements with an equal key too
\* (!l.less(key, e.key) in place of l.less(e.key, key))
RECURSIVE prevsWalkPastEqual(_, _, _, _, _, _)
prevsWalkPastEqual(s, o, lv, pos, key, sc) ==
    LET lk == LinkAt(s, o, lv) IN
    IF /\ lk.to # Nil
       /\ \/ FloatLess(s.elems[lk.to].score, sc)
          \/ /\ FloatEq(s.elems[lk.to].score, sc)
             /\ ~less(key, s.elems[lk.to].key)
    THEN prevsWalkPastEqual(s, lk.to, lv, pos + lk.width, key, sc)
    ELSE [o |-> o, pos |-> pos]

\* the inner loop of Skiplist.prevs at one level: walk right from the link
\* owner o while the next element compares strictly before (key, sc)
RECURSIVE prevsWalk(_, _, _, _, _, _)
prevsWalk(s, o, lv, pos, key, sc) ==
    LET lk == LinkAt(s, o, lv) IN
    IF /\ lk.to # Nil
       /\ \/ FloatLess(s.elems[lk.to].score, sc)
          \/ /\ FloatEq(s.elems[lk.to].score, sc)
             /\ less(s.elems[lk.to].key, key)
    THEN prevsWalk(s, lk.to, lv, pos + lk.width, key, sc)
    ELSE [o |-> o, pos |-> pos]

\* the outer loop of Skiplist.prevs from level index lv down to 1
RECURSIVE prevsLevels(_, _, _, _, _, _)
prevsLevels(s, lv, o, pos, key, sc) ==
    IF lv = 0 THEN <<>>
    ELSE LET w == prevsWalk(s, o, lv, pos, key, sc)
         IN  Append(prevsLevels(s, lv - 1, w.o, w.pos, key, sc), w)

\* prevs without the final pos++
prevsNoIncrement(s, key, sc) ==
    LET tr == prevsLevels(s, Len(s.links), Nil, -1, key, sc)
    IN  [prev |-> tr,
         pos |-> IF Len(tr) = 0 THEN -1 ELSE tr[1].pos]

\* Skiplist.prevs: the trace written to the scratch l.prev, and the position
prevs(s, key, sc) ==
    LET tr == prevsLevels(s, Len(s.links), Nil, -1, key, sc)
    IN  [prev |-> tr,
         pos |-> (IF Len(tr) = 0 THEN -1 ELSE tr[1].pos) + 1]

\* the inner loop of prevsN stopping one link early (< in place of <=)
RECURSIVE prevsNWalkStrict(_, _, _, _, _)
prevsNWalkStrict(s, o, lv, pos, index) ==
    LET lk == LinkAt(s, o, lv) IN
    IF lk.to # Nil /\ pos + lk.width < index
    THEN prevsNWalkStrict(s, lk.to, lv, pos + lk.width, index)
    ELSE [o |-> o, pos |-> pos]

\* the inner loop of Skiplist.prevsN at one level
RECURSIVE prevsNWalk(_, _, _, _, _)
prevsNWalk(s, o, lv, pos, index) ==
    LET lk == LinkAt(s, o, lv) IN
    IF lk.to # Nil /\ pos + lk.width <= index
    THEN prevsNWalk(s, lk.to, lv, pos + lk.width, index)
    ELSE [o |-> o, pos |-> pos]

RECURSIVE prevsNLevels(_, _, _, _, _)
prevsNLevels(s, lv, o, pos, index) ==
    IF lv = 0 THEN <<>>
    ELSE LET w == prevsNWalk(s, o, lv, pos, index)
         IN  Append(prevsNLevels(s, lv - 1, w.o, w.pos, index), w)

\* prevsN counting from -1, as prevs does
prevsNFromMinusOne(s, index) == prevsNLevels(s, Len(s.links), Nil, -1, index)

\* Skiplist.prevsN
prevsN(s, index) == prevsNLevels(s, Len(s.links), Nil, 0, index)

\* randLevels without the clamp to max
randLevelsUnclamped(levels, max) == levels

\* Skiplist.randLevels(max), with levels the outcome of the coin-flip loop
randLevels(levels, max) == IF levels > max THEN max ELSE levels

----------------------------------------------------------------------------
\* Mutations, as functions of the list state s = [cnt, links, prev, elems].

\* the loops of remove with the unlinked level's width not reduced by one
RECURSIVE removeLevelsKeepWidth(_, _, _, _, _)
removeLevelsKeepWidth(s, tr, elem, lv, unlinking) ==
    IF lv > Len(s.links) THEN s
    ELSE LET p == LinkAt(s, tr[lv].o, lv) IN
         IF unlinking /\ p.to = elem
         THEN LET el == s.elems[elem].links[lv] IN
              removeLevelsKeepWidth(SetLink(s, tr[lv].o, lv,
                                            [to |-> el.to, width |-> p.width + el.width]),
                                    tr, elem, lv + 1, TRUE)
         ELSE removeLevelsKeepWidth(SetLink(s, tr[lv].o, lv,
                                            [p EXCEPT !.width = p.width - 1]),
                                    tr, elem, lv + 1, FALSE)

\* the two loops of Skiplist.remove over level indices lv..len(l.links):
\* unlinking while the predecessor points at elem, then width adjustments
RECURSIVE removeLevels(_, _, _, _, _)
removeLevels(s, tr, elem, lv, unlinking) ==
    IF lv > Len(s.links) THEN s
    ELSE LET p == LinkAt(s, tr[lv].o, lv) IN
         IF unlinking /\ p.to = elem
         THEN LET el == s.elems[elem].links[lv] IN
              removeLevels(SetLink(s, tr[lv].o, lv,
                                   [to |-> el.to, width |-> p.width + el.width - 1]),
                           tr, elem, lv + 1, TRUE)
         ELSE removeLevels(SetLink(s, tr[lv].o, lv, [p EXCEPT !.width = p.width - 1]),
                           tr, elem, lv + 1, FALSE)

\* remove clearing the links of the element it has unlinked
removeClearingLinks(s, tr, elem) ==
    LET p  == LinkAt(s, tr[1].o, 1)
        s1 == SetLink(s, tr[1].o, 1, [p EXCEPT !.to = s.elems[elem].links[1].to])
        s2 == shrink(removeLevels(s1, tr, elem, 2, TRUE))
    IN  [s2 EXCEPT !.elems[elem].links =
            [i \in 1..Len(s2.elems[elem].links) |-> [to |-> Nil, width |-> 0]]]

\* remove unlinking the element at level 0 only
removeBottomOnly(s, tr, elem) ==
    LET p  == LinkAt(s, tr[1].o, 1)
        s1 == SetLink(s, tr[1].o, 1, [p EXCEPT !.to = s.elems[elem].links[1].to])
    IN  shrink(removeLevels(s1, tr, elem, 2, FALSE))

\* remove without the call of shrink
removeNoShrink(s, tr, elem) ==
    LET p  == LinkAt(s, tr[1].o, 1)
        s1 == SetLink(s, tr[1].o, 1, [p EXCEPT !.to = s.elems[elem].links[1].to])
    IN  removeLevels(s1, tr, elem, 2, TRUE)

\* remove without the unlinking at level 0
removeSkipBottom(s, tr, elem) == shrink(removeLevels(s, tr, elem, 2, TRUE))

\* Skiplist.remove(prev, elem)
remove(s, tr, elem) ==
    LET p  == LinkAt(s, tr[1].o, 1)
        s1 == SetLink(s, tr[1].o, 1, [p EXCEPT !.to = s.elems[elem].links[1].to])
    IN  shrink(removeLevels(s1, tr, elem, 2, TRUE))

\* the linking loop of insert giving the new element's link the width
\* computed for the predecessor's, and the predecessor's the new element's
RECURSIVE insertLevelsWidthsSwapped(_, _, _, _, _, _)
insertLevelsWidthsSwapped(s, tr, pos, nu, nuLevels, lv) ==
    IF lv > Len(tr) THEN s
    ELSE LET p == LinkAt(s, tr[lv].o, lv) IN
         IF lv <= nuLevels
         THEN IF lv = 1
              THEN LET s1 == SetLink(s, tr[lv].o, lv, [p EXCEPT !.to = nu])
                       s2 == SetLink(s1, nu, lv, [to |-> p.to, width |-> 1])
                   IN  insertLevelsWidthsSwapped(s2, tr, pos, nu, nuLevels, lv + 1)
              ELSE LET end == tr[lv].pos + p.width + 1
                       s1  == SetLink(s, nu, lv,
                                      [to |-> p.to, width |-> pos - tr[lv].pos])
                       s2  == SetLink(s1, tr[lv].o, lv,
                                      [to |-> nu, width |-> end - pos])
                   IN  insertLevelsWidthsSwapped(s2, tr, pos, nu, nuLevels, lv + 1)
         ELSE insertLevelsWidthsSwapped(
                  SetLink(s, tr[lv].o, lv, [p EXCEPT !.width = p.width + 1]),
                  tr, pos, nu, nuLevels, lv + 1)

\* the linking loop of insert leaving the levels above the new element as
\* they are
RECURSIVE insertLevelsLowOnly(_, _, _, _, _, _)
insertLevelsLowOnly(s, tr, pos, nu, nuLevels, lv) ==
    IF lv > Len(tr) THEN s
    ELSE LET p == LinkAt(s, tr[lv].o, lv) IN
         IF lv <= nuLevels
         THEN IF lv = 1
              THEN LET s1 == SetLink(s, tr[lv].o, lv, [p EXCEPT !.to = nu])
                       s2 == SetLink(s1, nu, lv, [to |-> p.to, width |-> 1])
                   IN  insertLevelsLowOnly(s2, tr, pos, nu, nuLevels, lv + 1)
              ELSE LET end == tr[lv].pos + p.width + 1
                       s1  == SetLink(s, nu, lv, [to |-> p.to, width |-> end - pos])
                       s2  == SetLink(s1, tr[lv].o, lv,
                                      [to |-> nu, width |-> pos - tr[lv].pos])
                   IN  insertLevelsLowOnly(s2, tr, pos, nu, nuLevels, lv + 1)
         ELSE s

\* the linking loop of Skiplist.insert over the levels of the trace tr
RECURSIVE insertLevels(_, _, _, _, _, _)
insertLevels(s, tr, pos, nu, nuLevels, lv) ==
    IF lv > Len(tr) THEN s
    ELSE LET p == LinkAt(s, tr[lv].o, lv) IN
         IF lv <= nuLevels
         THEN IF lv = 1
              THEN LET s1 == SetLink(s, tr[lv].o, lv, [p EXCEPT !.to = nu])
                       s2 == SetLink(s1, nu, lv, [to |-> p.to, width |-> 1])
                   IN  insertLevels(s2, tr, pos, nu, nuLevels, lv + 1)
              ELSE LET end == tr[lv].pos + p.width + 1
                       s1  == SetLink(s, nu, lv, [to |-> p.to, width |-> end - pos])
                       s2  == SetLink(s1, tr[lv].o, lv,
                                      [to |-> nu, width |-> pos - tr[lv].pos])
                   IN  insertLevels(s2, tr, pos, nu, nuLevels, lv + 1)
         ELSE insertLevels(SetLink(s, tr[lv].o, lv, [p EXCEPT !.width = p.width + 1]),
                           tr, pos, nu, nuLevels, lv + 1)

\* the replace condition with the first ! left out
replacesMissingNot(s, tr, key, sc) ==
    LET next == LinkAt(s, tr[1].o, 1).to IN
    /\ next # Nil
    /\ FloatEq(sc, s.elems[next].score)
    /\ less(key, s.elems[next].key)
    /\ ~less(s.elems[next].key, key)

\* the replace condition comparing the scores only
replacesScoreOnly(s, tr, key, sc) ==
    LET next == LinkAt(s, tr[1].o, 1).to IN
    /\ next # Nil
    /\ FloatEq(sc, s.elems[next].score)

\* whether Set finds an entry to replace at the head of the trace
replaces(s, tr, key, sc) ==
    LET next == LinkAt(s, tr[1].o, 1).to IN
    /\ next # Nil
    /\ FloatEq(sc, s.elems[next].score)
    /\ ~less(key, s.elems[next].key)
    /\ ~less(s.elems[next].key, key)

\* Skiplist.insert up to the call of randLevels: the list and the trace at
\* the time the new element is linked in
insertBeforeLinking(s, key, replace) ==
    Bind(grow(s), LAMBDA s1 :
    Bind(score(key), LAMBDA sc :
    Bind(prevs(s1, key, sc), LAMBDA t :
    Bind([s1 EXCEPT !.prev = t.prev], LAMBDA s2 :
        [s |-> IF replace /\ replaces(s2, t.prev, key, sc)
               THEN remove(s2, t.prev, LinkAt(s2, t.prev[1].o, 1).to)
               ELSE s2,
         tr |-> t.prev, pos |-> t.pos]))))

\* insert replacing whatever the replace argument says
insertAlwaysReplace(s, key, value, replace, nu, levels) ==
    Bind(grow(s), LAMBDA s1 :
    Bind(score(key), LAMBDA sc :
    Bind(prevs(s1, key, sc), LAMBDA t :
    Bind([s1 EXCEPT !.prev = t.prev], LAMBDA s2 :
    Bind(IF replaces(s2, t.prev, key, sc)
         THEN remove(s2, t.prev, LinkAt(s2, t.prev[1].o, 1).to)
         ELSE s2, LAMBDA s3 :
    Bind(randLevels(levels, Len(s3.links)), LAMBDA nuLevels :
    Bind([s3 EXCEPT !.elems = s3.elems @@ (nu :>
            [key |-> key, Value |-> value, score |-> sc,
             links |-> [i \in 1..nuLevels |-> [to |-> Nil, width |-> 0]]])],
         LAMBDA s4 :
    insertLevels(s4, t.prev, t.pos, nu, nuLevels, 1))))))))

\* Skiplist.insert(key, value, replace); nu is the pointer of the element
\* it allocates and levels the outcome of the coin-flip loop of randLevels
insert(s, key, value, replace, nu, levels) ==
    Bind(grow(s), LAMBDA s1 :
    Bind(score(key), LAMBDA sc :
    Bind(prevs(s1, key, sc), LAMBDA t :
    Bind([s1 EXCEPT !.prev = t.prev], LAMBDA s2 :
    Bind(IF replace /\ replaces(s2, t.prev, key, sc)
         THEN remove(s2, t.prev, LinkAt(s2, t.prev[1].o, 1).to)
         ELSE s2, LAMBDA s3 :
    Bind(randLevels(levels, Len(s3.links)), LAMBDA nuLevels :
    Bind([s3 EXCEPT !.elems = s3.elems @@ (nu :>
            [key |-> key, Value |-> value, score |-> sc,
             links |-> [i \in 1..nuLevels |-> [to |-> Nil, width |-> 0]]])],
         LAMBDA s4 :
    insertLevels(s4, t.prev, t.pos, nu, nuLevels, 1))))))))

----------------------------------------------------------------------------
\* Lookups, as functions of the list state: the result, the scratch trace
\* they leave in l.prev, and whether the call returned ("ok") or indexed the
\* empty trace ("panic": index out of range).

\* Skiplist.ElementPos(key)
ElementPos(s, key) ==
    Bind(score(key), LAMBDA sc :
    Bind(prevs(s, key, sc), LAMBDA t :
        IF Len(t.prev) = 0
        THEN [e |-> Nil, pos |-> -1, prev |-> t.prev, status |-> "panic"]
        ELSE LET elem == LinkAt(s, t.prev[1].o, 1).to IN
             IF \/ elem = Nil
                \/ FloatLess(sc, s.elems[elem].score)
                \/ /\ FloatEq(sc, s.elems[elem].score)
                   /\ less(key, s.elems[elem].key)
             THEN [e |-> Nil, pos |-> -1, prev |-> t.prev, status |-> "ok"]
             ELSE [e |-> elem, pos |-> t.pos, prev |-> t.prev, status |-> "ok"]))

\* Skiplist.ElementN(index)
ElementN(s, index) ==
    IF index >= s.cnt
    THEN [e |-> Nil, prev |-> s.prev, status |-> "ok"]
    ELSE LET tr == prevsN(s, index) IN
         IF Len(tr) = 0
         THEN [e |-> Nil, prev |-> tr, status |-> "panic"]
         ELSE [e |-> LinkAt(s, tr[1].o, 1).to, prev |-> tr, status |-> "ok"]

\* Skiplist.Pos(key)
Pos(s, key) == ElementPos(s, key).pos

\* Skiplist.Element(key)
Element(s, key) == ElementPos(s, key).e

\* Skiplist.GetOk(key); a nil interface value is Nil
GetOk(s, key) ==
    LET r == ElementPos(s, key)
    IN  IF r.status = "ok" /\ r.e # Nil
        THEN [value |-> s.elems[r.e].Value, ok |-> TRUE, e |-> r.e,
              prev |-> r.prev, status |-> r.status]
        ELSE [value |-> Nil, ok |-> FALSE, e |-> Nil,
              prev |-> r.prev, status |-> r.status]

\* Skiplist.Get(key)
Get(s, key) == GetOk(s, key).value

\* the loop of Skiplist.GetAll from the element e on; the fuel cuts the walk
\* of a cyclic list short
RECURSIVE getAllFrom(_, _, _, _, _)
getAllFrom(s, e, key, sc, fuel) ==
    IF /\ e # Nil
       /\ fuel > 0
       /\ FloatEq(s.elems[e].score, sc)
       /\ ~less(key, s.elems[e].key)
    THEN <<s.elems[e].Value>> \o getAllFrom(s, s.elems[e].links[1].to, key, sc, fuel - 1)
    ELSE <<>>

\* Skiplist.GetAll(key)
GetAll(s, key) ==
    Bind(score(key), LAMBDA sc :
    Bind(prevs(s, key, sc), LAMBDA t :
        IF Len(t.prev) = 0
        THEN [values |-> <<>>, prev |-> t.prev, status |-> "panic"]
        ELSE [values |-> getAllFrom(s, LinkAt(s, t.prev[1].o, 1).to, key, sc,
                                    Cardinality(DOMAIN s.elems) + 1),
              prev |-> t.prev, status |-> "ok"]))

\* Skiplist.Front()
Front(s) == IF Len(s.links) = 0 THEN Nil ELSE s.links[1].to

\* Element.Next()
ElemNext(s, e) == s.elems[e].links[1].to

----------------------------------------------------------------------------
\* The walk of the list by Front and Next, as the sequence of elements.

RECURSIVE walkFrom(_, _, _)
walkFrom(s, e, fuel) ==
    IF e = Nil \/ fuel = 0 THEN <<>>
    ELSE <<e>> \o walkFrom(s, ElemNext(s, e), fuel - 1)

\* Front(), Next(), ... until nil; the fuel cuts a cyclic walk short, one
\* step past the number of elements allocated
Walk(s) == walkFrom(s, Front(s), Cardinality(DOMAIN s.elems) + 1)

----------------------------------------------------------------------------
\* Removals, as functions of the list state: the new state, the element
\* returned, and whether the call returned ("ok"), indexed the empty trace
\* ("panic") or never left its loop ("hang").

\* Remove without the check that the entry found matches the key
RemoveUnverified(s, key) ==
    Bind(score(key), LAMBDA sc :
    Bind(prevs(s, key, sc), LAMBDA t :
    Bind([s EXCEPT !.prev = t.prev], LAMBDA s1 :
        IF Len(s1.prev) = 0
        THEN [s |-> s1, e |-> Nil, status |-> "panic"]
        ELSE LET elem == LinkAt(s1, s1.prev[1].o, 1).to IN
             IF elem = Nil
             THEN [s |-> s1, e |-> Nil, status |-> "ok"]
             ELSE [s |-> remove(s1, t.prev, elem), e |-> elem, status |-> "ok"])))

\* Skiplist.Remove(key)
Remove(s, key) ==
    Bind(score(key), LAMBDA sc :
    Bind(prevs(s, key, sc), LAMBDA t :
    Bind([s EXCEPT !.prev = t.prev], LAMBDA s1 :
        IF Len(s1.prev) = 0
        THEN [s |-> s1, e |-> Nil, status |-> "panic"]
        ELSE LET elem == LinkAt(s1, s1.prev[1].o, 1).to IN
             IF \/ elem = Nil
                \/ ~FloatEq(sc, s1.elems[elem].score)
                \/ /\ FloatEq(sc, s1.elems[elem].score)
                   /\ less(key, s1.elems[elem].key)
             THEN [s |-> s1, e |-> Nil, status |-> "ok"]
             ELSE [s |-> remove(s1, t.prev, elem), e |-> elem, status |-> "ok"])))

\* RemoveN with the range check index > l.cnt
RemoveNOffByOne(s, index) ==
    IF index > s.cnt
    THEN [s |-> s, e |-> Nil, status |-> "ok"]
    ELSE LET tr == prevsN(s, index)
             s1 == [s EXCEPT !.prev = tr]
         IN  IF Len(tr) = 0 \/ LinkAt(s1, tr[1].o, 1).to = Nil
             THEN [s |-> s1, e |-> Nil, status |-> "panic"]
             ELSE LET elem == LinkAt(s1, tr[1].o, 1).to
                  IN  [s |-> remove(s1, tr, elem), e |-> elem, status |-> "ok"]

\* RemoveN taking index as a count from one
RemoveNFromOne(s, index) ==
    IF index >= s.cnt
    THEN [s |-> s, e |-> Nil, status |-> "ok"]
    ELSE LET tr == prevsN(s, index - 1)
             s1 == [s EXCEPT !.prev = tr]
         IN  IF Len(tr) = 0 \/ LinkAt(s1, tr[1].o, 1).to = Nil
             THEN [s |-> s1, e |-> Nil, status |-> "panic"]
             ELSE LET elem == LinkAt(s1, tr[1].o, 1).to
                  IN  [s |-> remove(s1, tr, elem), e |-> elem, status |-> "ok"]

\* Skiplist.RemoveN(index)
RemoveN(s, index) ==
    IF index >= s.cnt
    THEN [s |-> s, e |-> Nil, status |-> "ok"]
    ELSE LET tr == prevsN(s, index)
             s1 == [s EXCEPT !.prev = tr]
         IN  IF Len(tr) = 0 \/ LinkAt(s1, tr[1].o, 1).to = Nil
             THEN [s |-> s1, e |-> Nil, status |-> "panic"]
             ELSE LET elem == LinkAt(s1, tr[1].o, 1).to
                  IN  [s |-> remove(s1, tr, elem), e |-> elem, status |-> "ok"]

\* the first loop of RemoveElement counting the target as a hop too
RECURSIVE groupHopsCountingTarget(_, _, _)
groupHopsCountingTarget(s, match, e) ==
    IF match = Nil THEN 0
    ELSE IF match = e THEN 1
    ELSE 1 + groupHopsCountingTarget(s, ElemNext(s, match), e)

\* the first loop of Skiplist.RemoveElement: the number of level-0 hops from
\* match to e (or to the end of the list)
RECURSIVE groupHops(_, _, _)
groupHops(s, match, e) ==
    IF match = Nil \/ match = e THEN 0
    ELSE 1 + groupHops(s, ElemNext(s, match), e)

\* the condition of that inner loop with <= in place of <
adjustCondInclusive(s, tr, lv, pos) ==
    tr[lv].pos + LinkAt(s, tr[lv].o, lv).width <= pos

\* the condition of the inner loop of the second loop of RemoveElement, on
\* the copy l := prevs[level]; the body never changes the copy
adjustCond(s, tr, lv, pos) == tr[lv].pos + LinkAt(s, tr[lv].o, lv).width < pos

\* the body of that inner loop, run on level index lv: it writes
\* prevs[level] from the copy (and, the copy unchanged, repeats for ever)
adjustBody(s, tr, lv) ==
    LET lk == LinkAt(s, tr[lv].o, lv)
    IN  [s EXCEPT !.prev[lv] = [o |-> lk.to, pos |-> tr[lv].pos + lk.width]]

\* the lowest level index at which the inner loop is entered, 0 if none
RECURSIVE firstStuck(_, _, _, _)
firstStuck(s, tr, lv, pos) ==
    IF lv > Len(tr) THEN 0
    ELSE IF adjustCond(s, tr, lv, pos) THEN lv
    ELSE firstStuck(s, tr, lv + 1, pos)

\* Skiplist.RemoveElement(e), for an element e of the list
RemoveElement(s, e) ==
    Bind(score(s.elems[e].key), LAMBDA sc :
    Bind(prevs(s, s.elems[e].key, sc), LAMBDA t :
    Bind([s EXCEPT !.prev = t.prev], LAMBDA s1 :
    Bind(t.pos + groupHops(s1, LinkAt(s1, t.prev[1].o, 1).to, e), LAMBDA pos :
    Bind(firstStuck(s1, t.prev, 1, pos), LAMBDA stuck :
        IF stuck # 0
        THEN [s |-> adjustBody(s1, t.prev, stuck), e |-> Nil, status |-> "hang"]
        ELSE [s |-> remove(s1, t.prev, e), e |-> e, status |-> "ok"])))))

----------------------------------------------------------------------------
\* The state machine: one action per public operation.  ret is what the
\* last call was given and what it returned.

S == [cnt |-> cnt, links |-> links, prev |-> prev, elems |-> elems]

\* rand.NewSource(42): the seed New and NewDescending give the private
\* generator of every instance
Seed == 42

\* a seed that differs from instance to instance
rngSeedByInstance(instance) == Seed + instance

rngSeed(instance) == Seed

\* A second instance, made by the same constructor: its fields, the number
\* of values its generator has produced and whether a call on it failed.
NewTwin ==
    [cnt |-> 0, links |-> <<>>, prev |-> <<>>, elems |-> <<>>,
     draws |-> 0, status |-> "ok"]

\* no lookup is in flight
NoCalls == <<>>

Indices == (0 - 1)..MaxAlloc

Ret(op, key, index, arg, e, pos, status) ==
    [op |-> op, key |-> key, index |-> index, arg |-> arg,
     e |-> e, pos |-> pos, status |-> status]

\* what a call that returns values was given and returned
RetValue(op, key, e, value, ok, values, status) ==
    Ret(op, key, 0, Nil, e, 0, status)
        @@ [value |-> value, ok |-> ok, values |-> values]

\* New() or NewDescending()
Init ==
    /\ cnt = 0
    /\ links = <<>>
    /\ prev = <<>>
    /\ elems = <<>>
    /\ nalloc = 0
    /\ desc \in BOOLEAN
    /\ ret = Ret("New", <<>>, 0, Nil, Nil, 0, "ok")
    /\ twin = NewTwin
    /\ calls = NoCalls

\* a call is made only while the previous one has returned
InLoop == ret.op \in {"RemoveLoop", "RemoveElementLoop"}

\* a call can be made: none has failed, and no removal loop is under way
Running == ret.status = "ok" /\ ~InLoop

\* The garbage collector: an element that was removed is dropped from the
\* heap.  (A link above the spine's length may still hold its pointer; no
\* operation reads such a link.)
Collect(s) ==
    LET w    == Walk(s)
        live == {w[i] : i \in 1..Len(w)}
    IN  [x \in live |-> s.elems[x]]

Store(s) ==
    /\ cnt' = s.cnt
    /\ links' = s.links
    /\ prev' = s.prev
    /\ elems' = Collect(s)

\* The value a call passes.  The list never reads an element's Value, so
\* the calls are told apart by passing each a value of its own.
NewValue == 10 * (nalloc + 1)

InsertOp(key, levels) ==
    /\ Running
    /\ nalloc < MaxAlloc
    /\ \E s \in {insert(S, key, NewValue, FALSE, nalloc + 1, levels)} : Store(s)
    /\ nalloc' = nalloc + 1
    /\ ret' = Ret("Insert", key, 0, Nil, nalloc + 1, 0, "ok")
    /\ UNCHANGED <<desc, twin, calls>>

SetOp(key, levels) ==
    /\ Running
    /\ nalloc < MaxAlloc
    /\ \E s \in {insert(S, key, NewValue, TRUE, nalloc + 1, levels)} : Store(s)
    /\ nalloc' = nalloc + 1
    /\ ret' = Ret("Set", key, 0, Nil, nalloc + 1, 0, "ok")
    /\ UNCHANGED <<desc, twin, calls>>

RemoveOp(key) ==
    /\ Running
    /\ \E r \in {Remove(S, key)} :
       /\ Store(r.s)
       /\ ret' = Ret("Remove", key, 0, Nil, r.e, 0, r.status)
    /\ UNCHANGED <<nalloc, desc, twin, calls>>

RemoveNOp(index) ==
    /\ Running
    /\ \E r \in {RemoveN(S, index)} :
       /\ Store(r.s)
       /\ ret' = Ret("RemoveN", <<>>, index, Nil, r.e, 0, r.status)
    /\ UNCHANGED <<nalloc, desc, twin, calls>>

RemoveElementOp(e) ==
    /\ Running
    /\ \E r \in {RemoveElement(S, e)} :
       /\ Store(r.s)
       /\ ret' = Ret("RemoveElement", <<>>, 0, e, r.e, 0, r.status)
    /\ UNCHANGED <<nalloc, desc, twin, calls>>

ElementPosOp(key) ==
    /\ Running
    /\ \E r \in {ElementPos(S, key)} :
       /\ prev' = r.prev
       /\ ret' = Ret("ElementPos", key, 0, Nil, r.e, r.pos, r.status)
    /\ UNCHANGED <<cnt, links, elems, nalloc, desc, twin, calls>>

\* Skiplist.Pos(key)
PosOp(key) ==
    /\ Running
    /\ \E r \in {ElementPos(S, key)} :
       /\ prev' = r.prev
       /\ ret' = Ret("Pos", key, 0, Nil, Nil, Pos(S, key), r.status)
    /\ UNCHANGED <<cnt, links, elems, nalloc, desc, twin, calls>>

\* ElementN unlinking the element it finds
ElementNOpRemoving(index) ==
    /\ Running
    /\ \E r \in {RemoveN(S, index)} :
       /\ Store(r.s)
       /\ ret' = Ret("ElementN", <<>>, index, Nil, r.e, 0, r.status)
    /\ UNCHANGED <<nalloc, desc, twin, calls>>

ElementNOp(index) ==
    /\ Running
    /\ \E r \in {ElementN(S, index)} :
       /\ prev' = r.prev
       /\ ret' = Ret("ElementN", <<>>, index, Nil, r.e, 0, r.status)
    /\ UNCHANGED <<cnt, links, elems, nalloc, desc, twin, calls>>

\* Skiplist.Len()
LenOp ==
    /\ Running
    /\ ret' = Ret("Len", <<>>, 0, Nil, Nil, cnt, "ok")
    /\ UNCHANGED <<cnt, links, prev, elems, nalloc, desc, twin, calls>>

FrontOp ==
    /\ Running
    /\ ret' = Ret("Front", <<>>, 0, Nil, Front(S), 0, "ok")
    /\ UNCHANGED <<cnt, links, prev, elems, nalloc, desc, twin, calls>>

\* Skiplist.Element(key)
ElementOp(key) ==
    /\ Running
    /\ \E r \in {ElementPos(S, key)} :
       /\ prev' = r.prev
       /\ ret' = Ret("Element", key, 0, Nil, Element(S, key), 0, r.status)
    /\ UNCHANGED <<cnt, links, elems, nalloc, desc, twin, calls>>

\* Skiplist.Get(key)
GetOp(key) ==
    /\ Running
    /\ \E r \in {GetOk(S, key)} :
       /\ prev' = r.prev
       /\ ret' = RetValue("Get", key, r.e, Get(S, key), FALSE, <<>>, r.status)
    /\ UNCHANGED <<cnt, links, elems, nalloc, desc, twin, calls>>

\* Skiplist.GetOk(key)
GetOkOp(key) ==
    /\ Running
    /\ \E r \in {GetOk(S, key)} :
       /\ prev' = r.prev
       /\ ret' = RetValue("GetOk", key, r.e, r.value, r.ok, <<>>, r.status)
    /\ UNCHANGED <<cnt, links, elems, nalloc, desc, twin, calls>>

\* Skiplist.GetAll(key)
GetAllOp(key) ==
    /\ Running
    /\ \E r \in {GetAll(S, key)} :
       /\ prev' = r.prev
       /\ ret' = RetValue("GetAll", key, Nil, Nil, FALSE, r.values, r.status)
    /\ UNCHANGED <<cnt, links, elems, nalloc, desc, twin, calls>>

\* the elements in the list (those a caller may pass to RemoveElement)
Stored == DOMAIN elems

Next ==
    \/ \E key \in Keys, levels \in 1..MaxDraw : InsertOp(key, levels)
    \/ \E key \in Keys, levels \in 1..MaxDraw : SetOp(key, levels)
    \/ \E key \in Keys : RemoveOp(key)
    \/ \E index \in Indices : RemoveNOp(index)
    \/ \E e \in Stored : RemoveElementOp(e)
    \/ \E key \in Keys : ElementPosOp(key)
    \/ \E key \in Keys : PosOp(key)
    \/ \E index \in Indices : ElementNOp(index)
    \/ LenOp
    \/ FrontOp
    \/ \E key \in Keys : ElementOp(key)
    \/ \E key \in Keys : GetOp(key)
    \/ \E key \in Keys : GetOkOp(key)
    \/ \E key \in Keys : GetAllOp(key)

Spec == Init /\ [][Next]_vars

----------------------------------------------------------------------------
\* The score functions applied to pairs of keys of one type.

ScoreByte == {0, 1, 255}

ShortKeys == UNION {[1..n -> ScoreByte] : n \in 0..2}

\* eight bytes that need more than 53 bits
WideKeys ==
    {<<h, x, x, x, x, x, m, l>> : h \in ScoreByte, x \in {0, 255},
                                  m \in ScoreByte, l \in ScoreByte}

KeysOfType(typ) ==
    CASE typ \in {"[]byte", "string"} ->
             ShortKeys \cup {k \o t : k \in WideKeys, t \in {<<>>, <<0>>}}
      [] typ = "uint64" -> WideKeys
      [] typ = "int64"  ->
             {[neg |-> n, d |-> k] : n \in BOOLEAN,
                                     k \in {w \in WideKeys : w[1] < 128}}
             \ {[neg |-> TRUE, d |-> ZeroDigits]}

KeyTypes == {"[]byte", "string", "uint64", "int64"}

InitScore ==
    /\ cnt = 0
    /\ links = <<>>
    /\ prev = <<>>
    /\ elems = <<>>
    /\ nalloc = 0
    /\ desc = FALSE
    /\ twin = NewTwin
    /\ calls = NoCalls
    /\ \E typ \in KeyTypes :
       \E a \in KeysOfType(typ), b \in KeysOfType(typ) :
          ret = [op |-> "keys", typ |-> typ, a |-> a, b |-> b]

\* less(a, b), score(a), score(b) as New binds them, and the scores as
\* NewDescending binds them
ScoreOp ==
    /\ ret.op = "keys"
    /\ ret' = [op |-> "score", typ |-> ret.typ, a |-> ret.a, b |-> ret.b,
               less |-> lessFnType(ret.typ, ret.a, ret.b),
               sa |-> scoreFnType(ret.typ, ret.a),
               sb |-> scoreFnType(ret.typ, ret.b),
               na |-> negativeScoreFnType(ret.typ, ret.a),
               nb |-> negativeScoreFnType(ret.typ, ret.b)]
    /\ UNCHANGED <<cnt, links, prev, elems, nalloc, desc, twin, calls>>

SpecScore == InitScore /\ [][ScoreOp]_vars

----------------------------------------------------------------------------
\* Removal during iteration: the loops
\*   for e := l.Front(); e != nil; e = e.Next() { l.Remove(e.Key()) }
\*   for e := l.Front(); e != nil; e = e.Next() { l.RemoveElement(e) }
\* started in a state the operations have reached.  ret.cursor is the loop
\* variable e, ret.arg the element of the last iteration, ret.e what its call
\* returned.

RetLoop(op, key, visited, e, cursor, status) ==
    Ret(op, key, 0, visited, e, 0, status) @@ [cursor |-> cursor]

\* an iteration can be taken: the body of a step is defined in every state
\* of its guard and changes ret, so this is ENABLED <<step>>_vars
RemoveLoopPending ==
    ret.status = "ok" /\ ret.op = "RemoveLoop" /\ ret.cursor # Nil

RemoveElementLoopPending ==
    ret.status = "ok" /\ ret.op = "RemoveElementLoop" /\ ret.cursor # Nil

\* e := l.Front()
StartRemoveLoop ==
    /\ Running
    /\ ret' = RetLoop("RemoveLoop", <<>>, Nil, Nil, Front(S), "ok")
    /\ UNCHANGED <<cnt, links, prev, elems, nalloc, desc, twin, calls>>

\* l.Remove(e.Key()); e = e.Next()
RemoveLoopStep ==
    /\ RemoveLoopPending
    /\ \E r \in {Remove(S, elems[ret.cursor].key)} :
       /\ Store(r.s)
       /\ ret' = RetLoop("RemoveLoop", elems[ret.cursor].key, ret.cursor, r.e,
                         ElemNext(r.s, ret.cursor), r.status)
    /\ UNCHANGED <<nalloc, desc, twin, calls>>

StartRemoveElementLoop ==
    /\ Running
    /\ ret' = RetLoop("RemoveElementLoop", <<>>, Nil, Nil, Front(S), "ok")
    /\ UNCHANGED <<cnt, links, prev, elems, nalloc, desc, twin, calls>>

\* l.RemoveElement(e); e = e.Next()
RemoveElementLoopStep ==
    /\ RemoveElementLoopPending
    /\ \E r \in {RemoveElement(S, ret.cursor)} :
       /\ Store(r.s)
       /\ ret' = RetLoop("RemoveElementLoop", <<>>, ret.cursor, r.e,
                         ElemNext(r.s, ret.cursor), r.status)
    /\ UNCHANGED <<nalloc, desc, twin, calls>>

\* The loops start in the states the operations that change the list have
\* reached: a lookup changes the scratch trace alone, and Remove and
\* RemoveElement write every level of the trace before they read it.
NextLoop ==
    \/ \E key \in Keys, levels \in 1..MaxDraw : InsertOp(key, levels)
    \/ \E key \in Keys, levels \in 1..MaxDraw : SetOp(key, levels)
    \/ \E key \in Keys : RemoveOp(key)
    \/ \E index \in Indices : RemoveNOp(index)
    \/ \E e \in Stored : RemoveElementOp(e)
    \/ StartRemoveLoop
    \/ RemoveLoopStep
    \/ StartRemoveElementLoop
    \/ RemoveElementLoopStep

\* A loop that has started goes on running: weak fairness of each loop's
\* iteration, WF_vars(step), with ENABLED written out as the guard.
SpecLoop ==
    /\ Init
    /\ [][NextLoop]_vars
    /\ ([]<>~RemoveLoopPending \/ []<><<RemoveLoopStep>>_vars)
    /\ ([]<>~RemoveElementLoopPending \/ []<><<RemoveElementLoopStep>>_vars)

----------------------------------------------------------------------------
\* Insert(k, v) immediately followed by Remove(k), in a state the operations
\* that change the list have reached.  ret.before is the list as it was
\* before the Insert, ret.arg the element the Insert has put in.

RetRoundTrip(op, key, inserted, e, before, status) ==
    Ret(op, key, 0, inserted, e, 0, status) @@ [before |-> before]

\* l.Insert(key, value)
RoundTripInsert(key, levels) ==
    /\ Running
    /\ nalloc < MaxAlloc
    /\ \E s \in {insert(S, key, NewValue, FALSE, nalloc + 1, levels)} : Store(s)
    /\ nalloc' = nalloc + 1
    /\ ret' = RetRoundTrip("RoundTripInsert", key, nalloc + 1, nalloc + 1, S, "ok")
    /\ UNCHANGED <<desc, twin, calls>>

\* l.Remove(key), with the key just inserted
RoundTripRemove ==
    /\ Running
    /\ ret.op = "RoundTripInsert"
    /\ \E r \in {Remove(S, ret.key)} :
       /\ Store(r.s)
       /\ ret' = RetRoundTrip("RoundTripRemove", ret.key, ret.arg, r.e,
                              ret.before, r.status)
    /\ UNCHANGED <<nalloc, desc, twin, calls>>

NextRoundTrip ==
    \/ \E key \in Keys, levels \in 1..MaxDraw : InsertOp(key, levels)
    \/ \E key \in Keys, levels \in 1..MaxDraw : SetOp(key, levels)
    \/ \E key \in Keys : RemoveOp(key)
    \/ \E index \in Indices : RemoveNOp(index)
    \/ \E e \in Stored : RemoveElementOp(e)
    \/ \E key \in Keys, levels \in 1..MaxDraw : RoundTripInsert(key, levels)
    \/ RoundTripRemove

SpecRoundTrip == Init /\ [][NextRoundTrip]_vars

----------------------------------------------------------------------------
\* The first key of a type the type switch of lessFn does not list.  The
\* functions l.less and l.score New has set bind the key type the first
\* time either is called, and the binding panics for such a type.

\* the cases of the type switch
SupportedKeyTypes ==
    {"FastKey", "SlowKey", "float32", "float64", "int", "int16", "int32",
     "int64", "int8", "string", "uint", "uint16", "uint32", "uint64", "uint8",
     "uintptr", "[]byte"}

\* key types a caller may pass that the switch does not list
OtherKeyTypes == {"bool", "struct{}"}

\* whether lessFn(key) returns a function (it panics if not)
lessFnBinds(typ) == typ \in SupportedKeyTypes

\* no call has bound the key type: no element was ever inserted, and a call
\* with a key on the list without elements would have failed
Unbound == nalloc = 0

RetKeyType(op, typ, status) ==
    Ret(op, <<>>, 0, Nil, Nil, 0, status) @@ [typ |-> typ]

\* Skiplist.insert with a first key of type typ that cannot be bound:
\* l.grow() has run when l.score(key) panics
insertUnbindable(s) == grow(s)

\* Insert(key, value), key of type typ
InsertKeyTypeOp(typ) ==
    /\ Running
    /\ Unbound
    /\ ~lessFnBinds(typ)
    /\ Store(insertUnbindable(S))
    /\ ret' = RetKeyType("Insert", typ, "panic")
    /\ UNCHANGED <<nalloc, desc, twin, calls>>

\* Set(key, value), key of type typ
SetKeyTypeOp(typ) ==
    /\ Running
    /\ Unbound
    /\ ~lessFnBinds(typ)
    /\ Store(insertUnbindable(S))
    /\ ret' = RetKeyType("Set", typ, "panic")
    /\ UNCHANGED <<nalloc, desc, twin, calls>>

NextKeyType ==
    \/ \E key \in Keys, levels \in 1..MaxDraw : InsertOp(key, levels)
    \/ \E key \in Keys, levels \in 1..MaxDraw : SetOp(key, levels)
    \/ \E key \in Keys : RemoveOp(key)
    \/ \E index \in Indices : RemoveNOp(index)
    \/ \E e \in Stored : RemoveElementOp(e)
    \/ \E typ \in OtherKeyTypes : InsertKeyTypeOp(typ)
    \/ \E typ \in OtherKeyTypes : SetKeyTypeOp(typ)

SpecKeyType == Init /\ [][NextKeyType]_vars

----------------------------------------------------------------------------
\* Two instances made by the same constructor and given the same calls.
\* The first is the instance of the variables cnt, links, prev, elems; the
\* second is twin.  Each has a generator of its own (nu.rng), and a
\* rand.Rand is deterministic: the value Int63 returns is a function of the
\* source's seed and of the number of values drawn before.  insert draws
\* once per call, so the first instance has drawn nalloc values.

TwinS ==
    [cnt |-> twin.cnt, links |-> twin.links, prev |-> twin.prev,
     elems |-> twin.elems]

\* what randLevels can draw in the twin when it draws `levels` in the first
\* instance
TwinDraws(levels) ==
    IF rngSeed(2) = rngSeed(1) /\ twin.draws = nalloc
    THEN {levels}
    ELSE 1..MaxDraw

TwinStore(s, drew, status) ==
    twin' = [cnt |-> s.cnt, links |-> s.links, prev |-> s.prev,
             elems |-> Collect(s), draws |-> twin.draws + drew,
             status |-> status]

\* a call can be made on both instances
TwinRunning == Running /\ twin.status = "ok"

TwinInsertOp(key, levels) ==
    /\ TwinRunning
    /\ nalloc < MaxAlloc
    /\ \E s \in {insert(S, key, NewValue, FALSE, nalloc + 1, levels)} : Store(s)
    /\ \E drawn \in TwinDraws(levels) :
       \E s \in {insert(TwinS, key, NewValue, FALSE, twin.draws + 1, drawn)} :
          TwinStore(s, 1, "ok")
    /\ nalloc' = nalloc + 1
    /\ ret' = Ret("Insert", key, 0, Nil, nalloc + 1, 0, "ok")
    /\ UNCHANGED <<desc, calls>>

TwinSetOp(key, levels) ==
    /\ TwinRunning
    /\ nalloc < MaxAlloc
    /\ \E s \in {insert(S, key, NewValue, TRUE, nalloc + 1, levels)} : Store(s)
    /\ \E drawn \in TwinDraws(levels) :
       \E s \in {insert(TwinS, key, NewValue, TRUE, twin.draws + 1, drawn)} :
          TwinStore(s, 1, "ok")
    /\ nalloc' = nalloc + 1
    /\ ret' = Ret("Set", key, 0, Nil, nalloc + 1, 0, "ok")
    /\ UNCHANGED <<desc, calls>>

TwinRemoveOp(key) ==
    /\ TwinRunning
    /\ \E r \in {Remove(S, key)} :
       /\ Store(r.s)
       /\ ret' = Ret("Remove", key, 0, Nil, r.e, 0, r.status)
    /\ \E r \in {Remove(TwinS, key)} : TwinStore(r.s, 0, r.status)
    /\ UNCHANGED <<nalloc, desc, calls>>

TwinRemoveNOp(index) ==
    /\ TwinRunning
    /\ \E r \in {RemoveN(S, index)} :
       /\ Store(r.s)
       /\ ret' = Ret("RemoveN", <<>>, index, Nil, r.e, 0, r.status)
    /\ \E r \in {RemoveN(TwinS, index)} : TwinStore(r.s, 0, r.status)
    /\ UNCHANGED <<nalloc, desc, calls>>

\* the element of the same allocation is removed from each
TwinRemoveElementOp(e) ==
    /\ TwinRunning
    /\ e \in DOMAIN twin.elems
    /\ \E r \in {RemoveElement(S, e)} :
       /\ Store(r.s)
       /\ ret' = Ret("RemoveElement", <<>>, 0, e, r.e, 0, r.status)
    /\ \E r \in {RemoveElement(TwinS, e)} : TwinStore(r.s, 0, r.status)
    /\ UNCHANGED <<nalloc, desc, calls>>

TwinElementPosOp(key) ==
    /\ TwinRunning
    /\ \E r \in {ElementPos(S, key)} :
       /\ prev' = r.prev
       /\ ret' = Ret("ElementPos", key, 0, Nil, r.e, r.pos, r.status)
    /\ \E r \in {ElementPos(TwinS, key)} :
       twin' = [twin EXCEPT !.prev = r.prev, !.status = r.status]
    /\ UNCHANGED <<cnt, links, elems, nalloc, desc, calls>>

TwinElementNOp(index) ==
    /\ TwinRunning
    /\ \E r \in {ElementN(S, index)} :
       /\ prev' = r.prev
       /\ ret' = Ret("ElementN", <<>>, index, Nil, r.e, 0, r.status)
    /\ \E r \in {ElementN(TwinS, index)} :
       twin' = [twin EXCEPT !.prev = r.prev, !.status = r.status]
    /\ UNCHANGED <<cnt, links, elems, nalloc, desc, calls>>

NextTwin ==
    \/ \E key \in Keys, levels \in 1..MaxDraw : TwinInsertOp(key, levels)
    \/ \E key \in Keys, levels \in 1..MaxDraw : TwinSetOp(key, levels)
    \/ \E key \in Keys : TwinRemoveOp(key)
    \/ \E index \in Indices : TwinRemoveNOp(index)
    \/ \E e \in Stored : TwinRemoveElementOp(e)
    \/ \E key \in Keys : TwinElementPosOp(key)
    \/ \E index \in Indices : TwinElementNOp(index)

SpecTwin == Init /\ [][NextTwin]_vars

----------------------------------------------------------------------------
\* A list of []byte keys, which walks by score first, next to a list that is
\* given the same calls with every key wrapped in a SlowKey type, whose
\* score is constant so that every comparison is made by Less.  The second
\* list is twin; it draws the heights the first draws, and twin.e and
\* twin.pos are what its last call returned.

SlowStore(s, drew, e, pos, status) ==
    twin' = [cnt |-> s.cnt, links |-> s.links, prev |-> s.prev,
             elems |-> Collect(s), draws |-> twin.draws + drew,
             status |-> status, e |-> e, pos |-> pos]

SlowInsertOp(key, levels) ==
    /\ TwinRunning
    /\ nalloc < MaxAlloc
    /\ \E s \in {insert(S, key, NewValue, FALSE, nalloc + 1, levels)} : Store(s)
    /\ \E drawn \in TwinDraws(levels) :
       \E s \in {insert(TwinS, SlowKey(key), NewValue, FALSE,
                        twin.draws + 1, drawn)} :
          SlowStore(s, 1, twin.draws + 1, 0, "ok")
    /\ nalloc' = nalloc + 1
    /\ ret' = Ret("Insert", key, 0, Nil, nalloc + 1, 0, "ok")
    /\ UNCHANGED <<desc, calls>>

SlowSetOp(key, levels) ==
    /\ TwinRunning
    /\ nalloc < MaxAlloc
    /\ \E s \in {insert(S, key, NewValue, TRUE, nalloc + 1, levels)} : Store(s)
    /\ \E drawn \in TwinDraws(levels) :
       \E s \in {insert(TwinS, SlowKey(key), NewValue, TRUE,
                        twin.draws + 1, drawn)} :
          SlowStore(s, 1, twin.draws + 1, 0, "ok")
    /\ nalloc' = nalloc + 1
    /\ ret' = Ret("Set", key, 0, Nil, nalloc + 1, 0, "ok")
    /\ UNCHANGED <<desc, calls>>

SlowRemoveOp(key) ==
    /\ TwinRunning
    /\ \E r \in {Remove(S, key)} :
       /\ Store(r.s)
       /\ ret' = Ret("Remove", key, 0, Nil, r.e, 0, r.status)
    /\ \E r \in {Remove(TwinS, SlowKey(key))} :
       SlowStore(r.s, 0, r.e, 0, r.status)
    /\ UNCHANGED <<nalloc, desc, calls>>

SlowRemoveNOp(index) ==
    /\ TwinRunning
    /\ \E r \in {RemoveN(S, index)} :
       /\ Store(r.s)
       /\ ret' = Ret("RemoveN", <<>>, index, Nil, r.e, 0, r.status)
    /\ \E r \in {RemoveN(TwinS, index)} : SlowStore(r.s, 0, r.e, 0, r.status)
    /\ UNCHANGED <<nalloc, desc, calls>>

SlowRemoveElementOp(e) ==
    /\ TwinRunning
    /\ e \in DOMAIN twin.elems
    /\ \E r \in {RemoveElement(S, e)} :
       /\ Store(r.s)
       /\ ret' = Ret("RemoveElement", <<>>, 0, e, r.e, 0, r.status)
    /\ \E r \in {RemoveElement(TwinS, e)} : SlowStore(r.s, 0, r.e, 0, r.status)
    /\ UNCHANGED <<nalloc, desc, calls>>

SlowElementPosOp(key) ==
    /\ TwinRunning
    /\ \E r \in {ElementPos(S, key)} :
       /\ prev' = r.prev
       /\ ret' = Ret("ElementPos", key, 0, Nil, r.e, r.pos, r.status)
    /\ \E r \in {ElementPos(TwinS, SlowKey(key))} :
       SlowStore([TwinS EXCEPT !.prev = r.prev], 0, r.e, r.pos, r.status)
    /\ UNCHANGED <<cnt, links, elems, nalloc, desc, calls>>

SlowElementNOp(index) ==
    /\ TwinRunning
    /\ \E r \in {ElementN(S, index)} :
       /\ prev' = r.prev
       /\ ret' = Ret("ElementN", <<>>, index, Nil, r.e, 0, r.status)
    /\ \E r \in {ElementN(TwinS, index)} :
       SlowStore([TwinS EXCEPT !.prev = r.prev], 0, r.e, 0, r.status)
    /\ UNCHANGED <<cnt, links, elems, nalloc, desc, calls>>

NextSlowKey ==
    \/ \E key \in Keys, levels \in 1..MaxDraw : SlowInsertOp(key, levels)
    \/ \E key \in Keys, levels \in 1..MaxDraw : SlowSetOp(key, levels)
    \/ \E key \in Keys : SlowRemoveOp(key)
    \/ \E index \in Indices : SlowRemoveNOp(index)
    \/ \E e \in Stored : SlowRemoveElementOp(e)
    \/ \E key \in Keys : SlowElementPosOp(key)
    \/ \E index \in Indices : SlowElementNOp(index)

SpecSlowKey == Init /\ [][NextSlowKey]_vars

----------------------------------------------------------------------------
\* Two lookups, ElementPos(key) or ElementN(index), running at the same time
\* on one list.  calls[i] is lookup i: its arguments, its place in the code
\* (pc), its local variables level (lv, as an index), links (o, the owner of
\* the link array) and pos, and what it has returned.  The walk of a level
\* reads the list, which no lookup writes, so it is one step with the write
\* that follows it; the writes of prev[level].pos and prev[level].link and
\* the read of prev[0].link are steps of their own, and the scratch l.prev
\* they go to is the one array both lookups were handed.

\* the indices the lookups by index are given
RaceIndices == 0..(MaxAlloc - 1)

RaceLookups ==
    {[op |-> "ElementPos", key |-> k, index |-> 0] : k \in Keys}
    \cup {[op |-> "ElementN", key |-> <<>>, index |-> i] : i \in RaceIndices}

\* the lookup c entering ElementPos or ElementN, up to the first level of
\* prevs or prevsN (ElementN returns nil at once for an index past the end)
lookupBegin(s, c) ==
    [op |-> c.op, key |-> c.key, index |-> c.index,
     pc |-> IF c.op = "ElementN" /\ c.index >= s.cnt THEN "done"
            ELSE IF Len(s.links) = 0 THEN "read" ELSE "pos",
     lv |-> Len(s.links), o |-> Nil,
     pos |-> IF c.op = "ElementPos" THEN -1 ELSE 0,
     e |-> Nil, rpos |-> 0, status |-> "ok"]

\* the inner loop of prevs or prevsN at the level of c
lookupWalk(s, c) ==
    IF c.op = "ElementPos"
    THEN prevsWalk(s, c.o, c.lv, c.pos, c.key, score(c.key))
    ELSE prevsNWalk(s, c.o, c.lv, c.pos, c.index)

\* ElementPos returning whatever element the trace leads to
lookupReturnUnverified(s, c) ==
    IF Len(s.prev) = 0 THEN [e |-> Nil, rpos |-> -1, status |-> "panic"]
    ELSE [e |-> LinkAt(s, s.prev[1].o, 1).to,
          rpos |-> IF c.op = "ElementPos" THEN c.pos + 1 ELSE 0,
          status |-> "ok"]

\* the end of ElementPos (pos++ of prevs, prev[0].link.to and the test of
\* the element found) or of ElementN (prev[0].link.to), reading the scratch
lookupReturn(s, c) ==
    IF Len(s.prev) = 0 THEN [e |-> Nil, rpos |-> -1, status |-> "panic"]
    ELSE Bind(LinkAt(s, s.prev[1].o, 1).to, LAMBDA elem :
         IF c.op = "ElementN" THEN [e |-> elem, rpos |-> 0, status |-> "ok"]
         ELSE Bind(score(c.key), LAMBDA sc :
              IF \/ elem = Nil
                 \/ FloatLess(sc, s.elems[elem].score)
                 \/ /\ FloatEq(sc, s.elems[elem].score)
                    /\ less(c.key, s.elems[elem].key)
              THEN [e |-> Nil, rpos |-> -1, status |-> "ok"]
              ELSE [e |-> elem, rpos |-> c.pos + 1, status |-> "ok"]))

\* go l.ElementPos / l.ElementN, twice
GoLookups(c1, c2) ==
    /\ Running
    /\ calls = NoCalls
    /\ calls' = <<lookupBegin(S, c1), lookupBegin(S, c2)>>
    /\ ret' = Ret("go", <<>>, 0, Nil, Nil, 0, "running")
    /\ UNCHANGED <<cnt, links, prev, elems, nalloc, desc, twin>>

\* the walk of a level and prev[level].pos = pos
LookupWritePos(i) ==
    /\ i \in DOMAIN calls
    /\ calls[i].pc = "pos"
    /\ \E w \in {lookupWalk(S, calls[i])} :
       /\ prev' = [prev EXCEPT ![calls[i].lv].pos = w.pos]
       /\ calls' = [calls EXCEPT ![i].o = w.o, ![i].pos = w.pos,
                                 ![i].pc = "link"]
    /\ UNCHANGED <<cnt, links, elems, nalloc, desc, ret, twin>>

\* prev[level].link = &(*links)[level] and level--
LookupWriteLink(i) ==
    /\ i \in DOMAIN calls
    /\ calls[i].pc = "link"
    /\ prev' = [prev EXCEPT ![calls[i].lv].o = calls[i].o]
    /\ calls' = [calls EXCEPT ![i].lv = calls[i].lv - 1,
                              ![i].pc = IF calls[i].lv = 1 THEN "read"
                                        ELSE "pos"]
    /\ UNCHANGED <<cnt, links, elems, nalloc, desc, ret, twin>>

\* prev[0].link.to and the return
LookupReturn(i) ==
    /\ i \in DOMAIN calls
    /\ calls[i].pc = "read"
    /\ \E r \in {lookupReturn(S, calls[i])} :
       calls' = [calls EXCEPT ![i].e = r.e, ![i].rpos = r.rpos,
                              ![i].status = r.status, ![i].pc = "done"]
    /\ UNCHANGED <<cnt, links, prev, elems, nalloc, desc, ret, twin>>

\* The list the lookups run on is built by Insert, and none is called
\* while the lookups run.
NextRace ==
    \/ \E key \in Keys, levels \in 1..MaxDraw : InsertOp(key, levels)
    \/ \E c1 \in RaceLookups, c2 \in RaceLookups : GoLookups(c1, c2)
    \/ \E i \in 1..2 : LookupWritePos(i)
    \/ \E i \in 1..2 : LookupWriteLink(i)
    \/ \E i \in 1..2 : LookupReturn(i)

SpecRace == Init /\ [][NextRace]_vars

----------------------------------------------------------------------------
\* Vocabulary of the properties.

\* the walk Front(), Next(), ... of the current list
W == Walk(S)

KeyOf(e) == elems[e].key

\* the order the list was created for: ascending by New, descending by
\* NewDescending; the keys are ordered as byte strings
Before(a, b) == IF desc THEN BytesLess(b, a) ELSE BytesLess(a, b)

\* the entries stored under a key, and the youngest of them (pointers are
\* numbered in allocation order)
EntriesOf(key) == {e \in Stored : KeyOf(e) = key}

Youngest(key) == CHOOSE e \in EntriesOf(key) : \A x \in EntriesOf(key) : x <= e

\* the sum of the widths of the links of one level, from the spine head to
\* the link that ends the level
RECURSIVE chainSum(_, _, _, _)
chainSum(s, o, lv, fuel) ==
    LET lk == LinkAt(s, o, lv) IN
    IF lk.to = Nil \/ fuel = 0 THEN lk.width
    ELSE lk.width + chainSum(s, lk.to, lv, fuel - 1)

LevelSum(lv) == chainSum(S, Nil, lv, Cardinality(Stored))

RECURSIVE FloorLog2(_)
FloorLog2(n) == IF n <= 1 THEN 0 ELSE 1 + FloorLog2(n \div 2)

\* the elements reached at one level by following the links from e (the
\* chain ends at an element that is no longer stored)
RECURSIVE chainFrom(_, _, _, _)
chainFrom(s, e, lv, fuel) ==
    IF e = Nil \/ fuel = 0 THEN <<>>
    ELSE IF e \notin DOMAIN s.elems THEN <<e>>
    ELSE <<e>> \o chainFrom(s, s.elems[e].links[lv].to, lv, fuel - 1)

\* the chain of one level, from the spine head
ChainOf(s, lv) ==
    chainFrom(s, s.links[lv].to, lv, Cardinality(DOMAIN s.elems) + 1)

Chain(lv) == ChainOf(S, lv)

Range(seq) == {seq[i] : i \in 1..Len(seq)}

\* the rank of an element in the walk, counted from 0; -1 for the spine head
Rank(e) == IF e = Nil THEN -1 ELSE (CHOOSE i \in 1..Len(W) : W[i] = e) - 1

Removals == {"Remove", "RemoveN", "RemoveElement"}

----------------------------------------------------------------------------
C2_YoungestFirst ==
    \A i, j \in 1..Len(W) :
        (i < j /\ KeyOf(W[i]) = KeyOf(W[j])) => W[i] > W[j]

\* a Set has replaced the youngest of two entries under one key
C2_Witness ==
    /\ ret.op = "Set"
    /\ W = <<3, 1>>
    /\ KeyOf(3) = KeyOf(1)

\* C3 as stated: at every level the widths from the spine head to the end
\* add up to count.
C3_WidthSumIsCount ==
    \A lv \in 1..Len(links) : LevelSum(lv) = cnt

\* C3 amended: at every level the widths from the spine head to the end add
\* up to count + 1 (the head's link is counted like an element's).
C3_WidthSum ==
    \A lv \in 1..Len(links) : LevelSum(lv) = cnt + 1

\* a removal has just unlinked an element and an upper level still has an
\* element on it
C3_Witness ==
    /\ ret.op \in Removals
    /\ ret.e # Nil
    /\ Len(links) = 2
    /\ links[2].to # Nil
    /\ cnt = 2

\* C4: the spine has floor(log2(count)) + 1 levels, none when count = 0.
C4_SpineLength ==
    Len(links) = IF cnt = 0 THEN 0 ELSE FloorLog2(cnt) + 1

\* a removal took the list from two elements to one and the spine with it
C4_Witness ==
    /\ ret.op \in Removals
    /\ ret.e # Nil
    /\ cnt = 1
    /\ Len(links) = 1
    /\ nalloc = 2

\* the number of stored entries whose key comes strictly before key
RankOf(key) == Cardinality({e \in Stored : Before(KeyOf(e), key)})

\* a sequence without the element x
Without(seq, x) == SelectSeq(seq, LAMBDA y : y # x)

\* C5: Len() is the number of entries of the walk; an Insert raises it by
\* one, a removal that returns an element lowers it by one, a Set that
\* replaces an entry leaves it as it was.
C5_Len ==
    [][/\ cnt' = Len(W')
       /\ (ret'.op = "Len" => ret'.pos = Len(W'))
       /\ (ret'.op = "Insert" => cnt' = cnt + 1)
       /\ (ret'.op \in Removals /\ ret'.e # Nil => cnt' = cnt - 1)
       /\ (ret'.op = "Set" /\ EntriesOf(ret'.key) # {} => cnt' = cnt)]_vars

\* Len() answers 2 after three insertions, one of them a replacing Set or
\* followed by a removal
C5_Witness ==
    /\ ret.op = "Len"
    /\ ret.pos = 2
    /\ nalloc = 3

\* C6: ElementPos(k) returns the youngest entry under k and the number of
\* entries whose key comes strictly before k; (nil, -1) when no entry is
\* stored under k.
C6_ElementPos ==
    ret.op = "ElementPos" =>
        /\ ret.status = "ok"
        /\ IF EntriesOf(ret.key) # {}
           THEN ret.e = Youngest(ret.key) /\ ret.pos = RankOf(ret.key)
           ELSE ret.e = Nil /\ ret.pos = 0 - 1

\* C7: ElementN(i), 0 <= i < count, returns the entry that i applications
\* of Next reach from Front.
C7_ElementN ==
    (ret.op = "ElementN" /\ 0 <= ret.index /\ ret.index < cnt) =>
        /\ ret.status = "ok"
        /\ ret.e = W[ret.index + 1]

\* the last of three entries, found past a link of the upper level
C7_Witness ==
    /\ ret.op = "ElementN"
    /\ ret.index = 2
    /\ cnt = 3
    /\ ret.e # Nil
    /\ links[2].to # Nil
    /\ links[2].to # ret.e

\* C8: when ElementPos(k) returns an element e and its position, ElementN
\* of that position returns e.
C8_PosThenN ==
    (ret.op = "ElementPos" /\ ret.e # Nil) =>
        /\ ElementN(S, ret.pos).status = "ok"
        /\ ElementN(S, ret.pos).e = ret.e

C8_Witness ==
    /\ ret.op = "ElementPos"
    /\ ret.e # Nil
    /\ ret.pos = 2

\* C9 as stated: for every valid rank i, with key the key of the entry
\* ElementN(i), ElementPos(key) returns that entry and Pos(key) is i.
C9_RoundTripAnyRank ==
    (ret.op = "ElementN" /\ 0 <= ret.index /\ ret.index < cnt /\ ret.e # Nil) =>
        /\ ElementPos(S, KeyOf(ret.e)).e = ret.e
        /\ Pos(S, KeyOf(ret.e)) = ret.index

\* C9 amended: the round trip holds for every valid rank whose entry is the
\* youngest stored under its key (every rank when the keys are distinct).
C9_RoundTrip ==
    (/\ ret.op = "ElementN" /\ 0 <= ret.index /\ ret.index < cnt /\ ret.e # Nil
     /\ ret.e = Youngest(KeyOf(ret.e))) =>
        /\ ElementPos(S, KeyOf(ret.e)).e = ret.e
        /\ Pos(S, KeyOf(ret.e)) = ret.index

\* rank 2 holds the youngest entry of a key that has two entries
C9_Witness ==
    /\ ret.op = "ElementN"
    /\ ret.index = 1
    /\ cnt = 3
    /\ ret.e # Nil
    /\ ret.e = Youngest(KeyOf(ret.e))
    /\ Cardinality(EntriesOf(KeyOf(ret.e))) = 2

\* C10: Remove(k), with an entry stored under k, removes and returns the
\* youngest entry under k; the other entries stay, in the order they had,
\* with their keys and values.
C10_Remove ==
    [][(ret'.op = "Remove" /\ EntriesOf(ret'.key) # {}) =>
          /\ ret'.status = "ok"
          /\ ret'.e = Youngest(ret'.key)
          /\ W' = Without(W, Youngest(ret'.key))
          /\ \A x \in Stored \ {Youngest(ret'.key)} :
                /\ elems'[x].key = elems[x].key
                /\ elems'[x].Value = elems[x].Value]_vars

\* the youngest of two entries under one key was removed from a list of three
C10_Witness ==
    /\ ret.op = "Remove"
    /\ ret.e # Nil
    /\ cnt = 2
    /\ nalloc = 3
    /\ \E x \in Stored : KeyOf(x) = ret.key /\ x < ret.e

\* C11: RemoveN(i), 0 <= i < count, removes and returns the entry at rank i
\* and no other; RemoveN(0) returns an entry that no remaining entry comes
\* before, and RemoveN(Len() - 1) returns the last entry of the walk.
C11_RemoveN ==
    [][(ret'.op = "RemoveN" /\ 0 <= ret'.index /\ ret'.index < cnt) =>
          /\ ret'.status = "ok"
          /\ ret'.e = W[ret'.index + 1]
          /\ W' = Without(W, W[ret'.index + 1])
          /\ cnt' = cnt - 1
          /\ (ret'.index = 0 =>
                \A i \in 1..Len(W') : ~Before(KeyOf(W'[i]), KeyOf(ret'.e)))
          /\ (ret'.index = cnt - 1 => ret'.e = W[Len(W)])]_vars

\* RemoveN(Len() - 1) has removed the last of three entries
C11_Witness ==
    /\ ret.op = "RemoveN"
    /\ ret.index = 2
    /\ ret.e # Nil
    /\ cnt = 2

\* C12: RemoveElement(e), with younger entries of e's key stored in front of
\* e, returns, having removed e and nothing else.
C12_RemoveElementOlder ==
    [][(ret'.op = "RemoveElement" /\ ret'.arg # Youngest(KeyOf(ret'.arg))) =>
          /\ ret'.status = "ok"
          /\ ret'.e = ret'.arg
          /\ W' = Without(W, ret'.arg)]_vars

\* C13: RemoveElement(e), e the youngest or only entry of its key, removes
\* and returns e, the other entries keep their order, and the list is the one
\* Remove(e.Key()) leaves.
C13_RemoveElementYoungest ==
    [][(ret'.op = "RemoveElement" /\ ret'.arg = Youngest(KeyOf(ret'.arg))) =>
          /\ ret'.status = "ok"
          /\ ret'.e = ret'.arg
          /\ W' = Without(W, ret'.arg)
          /\ \E r \in {Remove(S, KeyOf(ret'.arg))} :
                /\ r.e = ret'.e
                /\ cnt' = r.s.cnt
                /\ links' = r.s.links
                /\ prev' = r.s.prev
                /\ elems' = Collect(r.s)]_vars

\* the youngest of two entries under one key was removed by RemoveElement
\* from a list of three
C13_Witness ==
    /\ ret.op = "RemoveElement"
    /\ ret.e = 3
    /\ cnt = 2
    /\ KeyOf(1) = KeyOf(2)
    /\ W = <<2, 1>>

\* the entries stored under key after the step
EntriesAfter(key) == {e \in DOMAIN elems' : elems'[e].key = key}

\* the other entries keep their keys and values over the step
OthersKept(gone) ==
    \A x \in Stored \ gone :
        /\ x \in DOMAIN elems'
        /\ elems'[x].key = elems[x].key
        /\ elems'[x].Value = elems[x].Value

\* C14 as stated: Set(k, v) in a state with one or more entries under k
\* leaves exactly one entry under k, holding v.
C14_SetLeavesOne ==
    [][(ret'.op = "Set" /\ EntriesOf(ret'.key) # {}) =>
          /\ EntriesAfter(ret'.key) = {ret'.e}
          /\ elems'[ret'.e].Value = NewValue]_vars

\* C14 amended: Set(k, v) in a state with n >= 1 entries under k leaves n
\* entries under k: the new entry holding v in place of the youngest, and
\* the n - 1 older ones (so exactly one, holding v, when n = 1).
C14_Set ==
    [][(ret'.op = "Set" /\ EntriesOf(ret'.key) # {}) =>
          /\ EntriesAfter(ret'.key) =
                (EntriesOf(ret'.key) \ {Youngest(ret'.key)}) \cup {ret'.e}
          /\ ret'.e \notin Stored
          /\ elems'[ret'.e].Value = NewValue
          /\ (Cardinality(EntriesOf(ret'.key)) = 1 =>
                EntriesAfter(ret'.key) = {ret'.e})]_vars

\* a Set has left one entry, the third allocated, in the list
C14_Witness ==
    /\ ret.op = "Set"
    /\ nalloc = 3
    /\ W = <<3>>
    /\ elems[3].Value = 30

\* C15: Set(k, v) removes the youngest entry under k, if there is one, and
\* puts the new entry at its rank, the older entries under k and all other
\* entries kept and Len unchanged; with no entry under k it leaves the state
\* that Insert(k, v) leaves.
C15_SetReplacesYoungest ==
    [][ret'.op = "Set" =>
          IF EntriesOf(ret'.key) # {}
          THEN /\ cnt' = cnt
               /\ W' = [i \in 1..Len(W) |->
                           IF W[i] = Youngest(ret'.key) THEN ret'.e ELSE W[i]]
               /\ elems'[ret'.e].key = ret'.key
               /\ elems'[ret'.e].Value = NewValue
               /\ OthersKept({Youngest(ret'.key)})
          ELSE \E levels \in 1..MaxDraw :
                  \E s \in {insert(S, ret'.key, NewValue, FALSE, nalloc + 1, levels)} :
                      /\ cnt' = s.cnt
                      /\ links' = s.links
                      /\ prev' = s.prev
                      /\ elems' = Collect(s)]_vars

\* in a descending list a Set has replaced the younger of two entries under
\* one key and the older one is still there
C15_Witness ==
    /\ desc
    /\ ret.op = "Set"
    /\ ret.e = 3
    /\ cnt = 2
    /\ Cardinality(EntriesOf(ret.key)) = 2

\* C16: Insert(k, v) adds one new entry and replaces none: there is one more
\* entry under k, and every entry stored before is still stored, in the
\* order it had, with its key and value.
C16_InsertAdds ==
    [][ret'.op = "Insert" =>
          /\ ret'.e \notin Stored
          /\ elems'[ret'.e].key = ret'.key
          /\ elems'[ret'.e].Value = NewValue
          /\ Cardinality(EntriesAfter(ret'.key)) = Cardinality(EntriesOf(ret'.key)) + 1
          /\ DOMAIN elems' = Stored \cup {ret'.e}
          /\ Without(W', ret'.e) = W
          /\ OthersKept({})]_vars

\* a third entry was inserted under the key of the two stored before
C16_Witness ==
    /\ ret.op = "Insert"
    /\ W = <<3, 2, 1>>
    /\ KeyOf(1) = KeyOf(3)
    /\ KeyOf(2) = KeyOf(3)

\* the values of a set of entries, youngest entry first
RECURSIVE valuesOf(_)
valuesOf(es) ==
    IF es = {} THEN <<>>
    ELSE LET y == CHOOSE e \in es : \A x \in es : x <= e
         IN  <<elems[y].Value>> \o valuesOf(es \ {y})

\* C17: GetAll(k) returns the values of the entries stored under k, and no
\* others, youngest first; the empty sequence when no entry is under k.
C17_GetAll ==
    ret.op = "GetAll" =>
        /\ ret.status = "ok"
        /\ ret.values = valuesOf(EntriesOf(ret.key))

\* C18: GetOk(k) returns ok exactly when an entry is stored under k, with
\* the value of the youngest such entry, and (nil, false) otherwise; Get(k)
\* returns the same value, nil when no entry is under k.
C18_GetOk ==
    ret.op \in {"GetOk", "Get"} =>
        /\ ret.status = "ok"
        /\ (ret.op = "GetOk" => ret.ok = (EntriesOf(ret.key) # {}))
        /\ ret.value = IF EntriesOf(ret.key) # {}
                       THEN elems[Youngest(ret.key)].Value
                       ELSE Nil

\* C19: Remove(k) on a list that is not empty and has no entry under k
\* returns nil and leaves count, the spine and every link as they were.
C19_RemoveAbsent ==
    [][(ret'.op = "Remove" /\ cnt > 0 /\ EntriesOf(ret'.key) = {}) =>
          /\ ret'.status = "ok"
          /\ ret'.e = Nil
          /\ cnt' = cnt
          /\ links' = links
          /\ elems' = elems]_vars

\* Remove found no entry under its key in a list of three entries
C19_Witness ==
    /\ ret.op = "Remove"
    /\ ret.status = "ok"
    /\ ret.e = Nil
    /\ cnt = 3
    /\ EntriesOf(ret.key) = {}

\* C20: on an empty list Remove, ElementPos, Element, Pos, Get, GetOk and
\* GetAll return their not-found outcome.
C20_EmptyNotFound ==
    [][(cnt = 0 /\ ret'.op \in {"Remove", "ElementPos", "Element", "Pos",
                                 "Get", "GetOk", "GetAll"}) =>
          /\ ret'.status = "ok"
          /\ (ret'.op \in {"Remove", "ElementPos", "Element"} => ret'.e = Nil)
          /\ (ret'.op \in {"ElementPos", "Pos"} => ret'.pos = 0 - 1)
          /\ (ret'.op \in {"Get", "GetOk"} => ret'.value = Nil)
          /\ (ret'.op = "GetOk" => ~ret'.ok)
          /\ (ret'.op = "GetAll" => ret'.values = <<>>)]_vars

----------------------------------------------------------------------------
\* the list itself, without the scratch trace
ListUnchanged == cnt' = cnt /\ links' = links /\ elems' = elems

Lookups == {"Front", "Len", "ElementPos", "Element", "Pos", "ElementN",
            "Get", "GetOk", "GetAll"}

\* C21: RemoveN(i) and ElementN(i) with i >= count return nil and leave the
\* list as it was, on an empty list too.
C21_IndexPastEnd ==
    [][(ret'.op \in {"RemoveN", "ElementN"} /\ ret'.index >= cnt) =>
          /\ ret'.status = "ok"
          /\ ret'.e = Nil
          /\ ListUnchanged]_vars

\* RemoveN(count) on a list of two entries
C21_Witness ==
    /\ ret.op = "RemoveN"
    /\ ret.index = 2
    /\ cnt = 2
    /\ ret.e = Nil

\* C22: RemoveN(i) and ElementN(i) with i < 0 return nil in every state and
\* neither fail nor return or remove an entry.
C22_NegativeIndex ==
    [][(ret'.op \in {"RemoveN", "ElementN"} /\ ret'.index < 0) =>
          /\ ret'.status = "ok"
          /\ ret'.e = Nil
          /\ ListUnchanged]_vars

C28_HeightWithinSpine ==
    \A e \in Stored : Len(elems[e].links) <= Len(links)

\* C28 amended: an element is at most as high as the spine is when Insert or
\* Set has put it in (later removals may shrink the spine below it).
C28_HeightAtInsert ==
    [][ret'.op \in {"Insert", "Set"} =>
          /\ Len(elems'[ret'.e].links) >= 1
          /\ Len(elems'[ret'.e].links) <= Len(links')]_vars

\* a removal has shrunk the spine below the height of an element still stored
C28_Witness ==
    /\ ret.op \in Removals
    /\ ret.e # Nil
    /\ \E e \in Stored : Len(elems[e].links) > Len(links)

----------------------------------------------------------------------------
\* an iteration of a removal loop: the call removes and returns the entry
\* visited, which is the first of the walk, and the loop variable moves to
\* the first of the entries left
IterationRemovesVisited ==
    /\ ret'.status = "ok"
    /\ ret'.arg = W[1]
    /\ ret'.e = ret'.arg
    /\ W' = Tail(W)
    /\ ret'.cursor = IF W' = <<>> THEN Nil ELSE W'[1]

\* C23: the loop calling Remove(e.Key()) on the entry visited removes that
\* entry and no other in each iteration, visits the entries in the order of
\* the walk, comes to an end, and then the list is empty.
C23_RemoveLoop ==
    /\ [][(ret.op = "RemoveLoop" /\ ret'.op = "RemoveLoop") =>
              IterationRemovesVisited]_vars
    /\ [](ret.op = "RemoveLoop" => (ret.cursor = Nil <=> cnt = 0))
    /\ (ret.op = "RemoveLoop") ~> (ret.op = "RemoveLoop" /\ ret.cursor = Nil /\ cnt = 0)

\* the loop has removed the younger of two entries under one key and is at
\* the older one
C23_Witness ==
    /\ ret.op = "RemoveLoop"
    /\ ret.e = 3
    /\ ret.cursor = 2
    /\ cnt = 2
    /\ KeyOf(2) = ret.key

\* C24: the loop calling RemoveElement(e) on the entry visited removes the
\* entries one by one in the order of the walk, each call returning the
\* entry visited, and ends with the list empty.
C24_RemoveElementLoop ==
    /\ [][(ret.op = "RemoveElementLoop" /\ ret'.op = "RemoveElementLoop") =>
              IterationRemovesVisited]_vars
    /\ [](ret.op = "RemoveElementLoop" => (ret.cursor = Nil <=> cnt = 0))
    /\ (ret.op = "RemoveElementLoop")
          ~> (ret.op = "RemoveElementLoop" /\ ret.cursor = Nil /\ cnt = 0)

\* the loop has removed the youngest of three entries under one key and is
\* at the second
C24_Witness ==
    /\ ret.op = "RemoveElementLoop"
    /\ ret.arg = 3
    /\ ret.e = 3
    /\ ret.cursor = 2
    /\ cnt = 2
    /\ KeyOf(2) = KeyOf(1)

----------------------------------------------------------------------------
\* C29: the ascending score is monotonic: for keys a, b of one type, []byte,
\* string, uint64 or int64, a < b implies score(a) <= score(b).
C29_ScoreMonotonic ==
    (ret.op = "score" /\ ret.less) => ~FloatLess(ret.sb, ret.sa)

\* byte keys of 8 and 9 bytes that differ in the first 8, a < b, with equal
\* scores: the conversion to float64 has rounded
C29_Witness ==
    /\ ret.op = "score"
    /\ ret.typ = "[]byte"
    /\ ret.less
    /\ Len(ret.a) = 8
    /\ Len(ret.b) = 9
    /\ SubSeq(ret.b, 1, 8) # ret.a
    /\ FloatEq(ret.sa, ret.sb)

\* C30: the descending score is monotonic for the inverted order: for keys
\* a, b of one type, a < b implies negativeScore(a) >= negativeScore(b).
C30_NegativeScoreMonotonic ==
    (ret.op = "score" /\ ret.less) => ~FloatLess(ret.na, ret.nb)

LastBefore(lv, key) ==
    IF \A e \in Range(Chain(lv)) : ~Before(KeyOf(e), key) THEN Nil
    ELSE CHOOSE e \in Range(Chain(lv)) :
            /\ Before(KeyOf(e), key)
            /\ \A x \in Range(Chain(lv)) : Before(KeyOf(x), key) => Rank(x) <= Rank(e)

\* C33: for every key, prevs returns as position the number of stored
\* entries that come strictly before the key, and records at every level of
\* the spine the link of the last element of that level that comes strictly
\* before the key (the spine head's if none) and that element's rank (-1
\* for the head); ElementPos leaves that trace in the scratch.
C33_TraceByKey ==
    /\ \A key \in Keys :
          \E t \in {prevs(S, key, score(key))} :
             /\ t.pos = RankOf(key)
             /\ Len(t.prev) = Len(links)
             /\ \A lv \in 1..Len(links) :
                   /\ t.prev[lv].o = LastBefore(lv, key)
                   /\ t.prev[lv].pos = Rank(t.prev[lv].o)
    /\ (ret.op = "ElementPos" /\ ret.status = "ok") =>
          prev = prevs(S, ret.key, score(ret.key)).prev

\* ElementPos found the last of three entries: the trace holds the first
\* entry at the upper level and the second at level 0
C33_Witness ==
    /\ ret.op = "ElementPos"
    /\ cnt = 3
    /\ ret.pos = 2
    /\ ret.e = W[3]
    /\ prev = <<[o |-> W[2], pos |-> 1], [o |-> W[1], pos |-> 0]>>

\* the list after the step
SAfter == [cnt |-> cnt', links |-> links', prev |-> prev', elems |-> elems']

SameRemoval(r) ==
    /\ r.status = "ok"
    /\ ret'.e = r.e
    /\ cnt' = r.s.cnt
    /\ links' = r.s.links
    /\ elems' = Collect(r.s)

\* C35: for a stored key k, Remove(k) and RemoveN(Pos(k)) started in the
\* same state remove the same element and leave the same structure: count,
\* spine, and the destination and width of every link.  Every Remove that
\* finds its key does what RemoveN does at the key's position, and every
\* RemoveN at the position of the removed element's key does what Remove of
\* that key does.
C35_RemoveByKeyOrPos ==
    [][/\ (ret'.op = "Remove" /\ ret'.status = "ok" /\ ret'.e # Nil) =>
             \E r \in {RemoveN(S, Pos(S, ret'.key))} : SameRemoval(r)
       /\ (/\ ret'.op = "RemoveN" /\ ret'.status = "ok" /\ ret'.e # Nil
           /\ Pos(S, KeyOf(ret'.e)) = ret'.index) =>
             \E r \in {Remove(S, KeyOf(ret'.e))} : SameRemoval(r)]_vars

\* Remove has taken the middle one of three entries, leaving a spine of two
\* levels with an element on the upper one
C35_Witness ==
    /\ ret.op = "Remove"
    /\ ret.e = 2
    /\ nalloc = 3
    /\ Len(W) = 2
    /\ Before(KeyOf(W[1]), ret.key)
    /\ Before(ret.key, KeyOf(W[2]))
    /\ Len(links) = 2
    /\ links[2].to # Nil

\* a is b with some of its elements left out (b has no element twice)
IsSubsequence(a, b) == a = SelectSeq(b, LAMBDA x : x \in Range(a))

NoDuplicates(seq) == \A i, j \in 1..Len(seq) : seq[i] = seq[j] => i = j

\* the walk after the step
WAfter == Walk(SAfter)

\* C36: the chain of each level above 0 is a subsequence of the chain of
\* the level below, so an element reached at a level is reached at every
\* level below it; the chain of level 0 holds every stored element exactly
\* once: it has no element twice, it is as long as the count, an insertion
\* adds the new element to it, a removal takes the removed element out of
\* it, and no other call changes it.
C36_LevelNesting ==
    /\ [](/\ \A lv \in 1..(Len(links) - 1) :
                IsSubsequence(Chain(lv + 1), Chain(lv))
          /\ \A lv \in 1..Len(links), lo \in 1..Len(links) :
                lo <= lv => Range(Chain(lv)) \subseteq Range(Chain(lo))
          /\ Len(links) > 0 => Chain(1) = W
          /\ NoDuplicates(W)
          /\ Len(W) = cnt
          /\ Range(W) = Stored)
    /\ [][/\ ret'.op = "Insert" =>
                Range(WAfter) = Range(W) \cup {ret'.e} /\ ret'.e \notin Range(W)
          /\ ret'.op = "Set" =>
                /\ ret'.e \in Range(WAfter) /\ ret'.e \notin Range(W)
                /\ Range(WAfter) \subseteq Range(W) \cup {ret'.e}
                /\ Cardinality(Range(W) \ Range(WAfter)) <= 1
          /\ (ret'.op \in Removals /\ ret'.e # Nil) =>
                Range(WAfter) = Range(W) \ {ret'.e} /\ ret'.e \in Range(W)
          /\ (ret'.op \notin {"Insert", "Set"}
                /\ ~(ret'.op \in Removals /\ ret'.e # Nil)) =>
                WAfter = W]_vars

\* three entries, the middle one alone on the upper level
C36_Witness ==
    /\ cnt = 3
    /\ Len(links) = 2
    /\ Len(W) = 3
    /\ Chain(2) = <<W[2]>>
    /\ ret.op = "Insert"

\* C37: Insert(k, v) immediately followed by Remove(k) removes the element
\* just inserted and restores the list as seen from the spine head: the
\* same count, the same spine length, the same chain of elements at every
\* level and the same width on every link of those chains.
C37_InsertRemoveRoundTrip ==
    ret.op = "RoundTripRemove" =>
        /\ ret.status = "ok"
        /\ ret.e = ret.arg
        /\ cnt = ret.before.cnt
        /\ Len(links) = Len(ret.before.links)
        /\ \A lv \in 1..Len(links) :
              /\ Chain(lv) = ChainOf(ret.before, lv)
              /\ \A o \in {Nil} \cup Range(Chain(lv)) :
                    LinkAt(S, o, lv).width = LinkAt(ret.before, o, lv).width

\* the round trip went through a list of two entries with one of them on
\* the upper level, the third entry having been put between them
C37_Witness ==
    /\ ret.op = "RoundTripRemove"
    /\ ret.e = 3
    /\ cnt = 2
    /\ Chain(2) = <<W[2]>>
    /\ Before(KeyOf(W[1]), ret.key)
    /\ ~Before(KeyOf(W[2]), ret.key)

\* the removal that has returned s has left the element e as it was in the
\* list S: key, value, score and links, so that Next() gives what it gave
Untouched(s, e) ==
    /\ s.elems[e] = elems[e]
    /\ ElemNext(s, e) = ElemNext(S, e)

\* C38: a removal (Remove, RemoveN, RemoveElement, or the removal inside
\* Set) leaves the removed element's key, value and link array as they
\* were, so Next() on the element just removed still returns the element
\* that followed it before the removal.
C38_RemovedUntouched ==
    [][/\ (ret'.op = "Remove" /\ ret'.e # Nil) =>
             \E r \in {Remove(S, ret'.key)} :
                r.e = ret'.e /\ Untouched(r.s, r.e)
       /\ (ret'.op = "RemoveN" /\ ret'.e # Nil) =>
             \E r \in {RemoveN(S, ret'.index)} :
                r.e = ret'.e /\ Untouched(r.s, r.e)
       /\ (ret'.op = "RemoveElement" /\ ret'.e # Nil) =>
             \E r \in {RemoveElement(S, ret'.arg)} :
                r.e = ret'.e /\ Untouched(r.s, r.e)
       /\ (ret'.op = "Set" /\ cnt' = cnt) =>
             \A levels \in 1..MaxDraw :
                \E s \in {insert(S, ret'.key, NewValue, TRUE, ret'.e, levels)} :
                   /\ Youngest(ret'.key) \notin Range(Walk(s))
                   /\ Untouched(s, Youngest(ret'.key))]_vars

\* RemoveN has taken the middle one of three entries, which was two levels
\* high and had the last entry behind it at both levels
C38_Witness ==
    /\ ret.op = "RemoveN"
    /\ ret.index = 1
    /\ ret.e # Nil
    /\ nalloc = 3
    /\ cnt = 2
    /\ Len(links) = 2
    /\ Chain(2) = <<W[2]>>

\* C39: an Insert or Set that fails because the type of the first key
\* cannot be bound leaves the instance as New made it: the count is 0 and
\* the spine is empty after the failure.
C39_UnsupportedKeyLeavesNew ==
    (ret.op \in {"Insert", "Set"} /\ ret.status = "panic") =>
        cnt = 0 /\ links = <<>>

\* C31: a list that compares by score first and a list whose score is
\* constant (every comparison made by less), given the same calls and the
\* same heights, have the same level-0 order (the entries of the same calls
\* in the same order, each key the wrapped key of the other list), the same
\* ranks (the same widths on the same links), and every lookup and removal
\* returns the same element and position and ends the same way.
C31_ScoreFastPath ==
    ret.op # "New" =>
        /\ twin.status = ret.status
        /\ twin.e = ret.e
        /\ twin.pos = ret.pos
        /\ twin.cnt = cnt
        /\ Walk(TwinS) = W
        /\ \A e \in Stored :
              /\ twin.elems[e].key = SlowKey(KeyOf(e))
              /\ twin.elems[e].Value = elems[e].Value
              /\ twin.elems[e].links = elems[e].links
        /\ twin.links = links

\* ElementPos has found the last of three entries under three keys, two of
\* which the score does not tell apart, in both lists
C31_Witness ==
    /\ ret.op = "ElementPos"
    /\ cnt = 3
    /\ twin.e = W[3]
    /\ twin.pos = 2
    /\ \A e \in Stored : IsZero(twin.elems[e].score.d)
    /\ \E e \in Stored : ~IsZero(elems[e].score.d)
    /\ \E e, x \in Stored :
          KeyOf(e) # KeyOf(x) /\ FloatEq(elems[e].score, elems[x].score)

\* what the lookup c has returned
Result(c) == [e |-> c.e, rpos |-> c.rpos, status |-> c.status]

\* what the lookup c returns when it runs alone on the list
AloneResult(c) ==
    IF c.op = "ElementPos"
    THEN Bind(ElementPos(S, c.key), LAMBDA r :
              [e |-> r.e, rpos |-> r.pos, status |-> r.status])
    ELSE Bind(ElementN(S, c.index), LAMBDA r :
              [e |-> r.e, rpos |-> 0, status |-> r.status])

\* C27: two lookups (ElementPos or ElementN) on one instance are not safe to
\* run together.  A lookup that has returned something else than it returns
\* alone has read, in the scratch trace both write, the level-0 link the
\* other lookup has written there: its result is the one its last lines
\* compute from the other's level-0 predecessor.  (That such a state is
\* reached is C27_Witness.)
C27_SharedScratch ==
    \A i \in DOMAIN calls :
        (calls[i].pc = "done" /\ Result(calls[i]) # AloneResult(calls[i])) =>
            /\ Len(links) > 0
            /\ calls[3 - i].lv = 0
            /\ calls[3 - i].pc \in {"read", "done"}
            /\ Result(calls[i]) =
                  lookupReturn([S EXCEPT !.prev[1].o = calls[3 - i].o], calls[i])

\* ElementPos(key), interleaved with an ElementN, has returned an element
\* stored under another key, and a position that is not that element's
C27_Witness ==
    /\ Len(calls) = 2
    /\ calls[1].op = "ElementPos"
    /\ calls[2].op = "ElementN"
    /\ calls[1].pc = "done"
    /\ calls[1].e # Nil
    /\ KeyOf(calls[1].e) # calls[1].key
    /\ calls[1].rpos # Rank(calls[1].e)
    /\ Result(calls[1]) # AloneResult(calls[1])

====
